---- MODULE Spec2Model ----
(***************************************************************************)
(* StockTracker backend: the daily cache-or-fetch orchestrators for        *)
(* currency rates, commodity prices and news, and the relational store     *)
(* they write to.                                                          *)
(*                                                                         *)
(*   services/dataService.ts  (second half of alphaVantageService.ts)      *)
(*   services/alphaVantageService.ts, services/marketauxService.ts         *)
(*   services/newsService.ts, models/CurrencyRate.ts,                      *)
(*   models/CommodityPrice.ts, models/News.ts, routes/api.ts               *)
(***************************************************************************)
EXTENDS Integers, Sequences, FiniteSets, TLC

(***************************************************************************)
(* Bounds of the model.                                                    *)
(***************************************************************************)
\* UTC calendar days the clock runs through
MaxDay == 2
\* provider or store failures injected into the quote batches of one run
MaxFaults == 2

(***************************************************************************)
(* JavaScript / SQL values.  A value that the code converts, tests for     *)
(* truthiness or may store as NULL is tagged with its type.                *)
(***************************************************************************)
Null == [null |-> TRUE]
Undefined == [undefined |-> TRUE]
Num(n) == [num |-> n]
\* a string spelling the decimal number n, as the quotes provider sends it
Text(n) == [text |-> n]
Str(s) == [str |-> s]

\* JS truthiness: null, undefined, 0 and "" are falsy
Truthy(v) == v \notin {Null, Undefined, Num(0), Str("")}

\* JS  a || b
OrElse(a, b) == IF Truthy(a) THEN a ELSE b

\* parseFloat of a numeric string; a DECIMAL column read back as a string
\* parses to the same number
parseFloat(s) == Num(s.text)

\* an arbitrary but fixed enumeration of a finite set (a SELECT without
\* ORDER BY)
RECURSIVE SetToSeq(_)
SetToSeq(S) ==
    IF S = {} THEN <<>>
    ELSE LET x == CHOOSE y \in S : TRUE IN <<x>> \o SetToSeq(S \ {x})

Range(s) == {s[k] : k \in 1..Len(s)}

\* the numbers of the set S in ascending order
RECURSIVE Ascending(_)
Ascending(S) ==
    IF S = {} THEN <<>>
    ELSE LET m == CHOOSE x \in S : \A y \in S : x <= y
         IN  <<m>> \o Ascending(S \ {m})

\* Math.abs
Abs(n) == IF n < 0 THEN 0 - n ELSE n

Min(a, b) == IF a < b THEN a ELSE b

\* Array.prototype.slice(start, end) for 0 <= start <= end
slice(list, start, end) == SubSeq(list, start + 1, Min(end, Len(list)))

(***************************************************************************)
(* Tracked instruments.                                                    *)
(***************************************************************************)
MAIN_CURRENCIES ==
    << [from |-> "USD", to |-> "CNY", name |-> "USD/CNY"],
       [from |-> "EUR", to |-> "USD", name |-> "EUR/USD"],
       [from |-> "GBP", to |-> "USD", name |-> "GBP/USD"],
       [from |-> "USD", to |-> "JPY", name |-> "USD/JPY"] >>

POPULAR_COMMODITIES ==
    << [symbol |-> "GLD",  name |-> "Gold",      unit |-> "USD/oz"],
       [symbol |-> "SLV",  name |-> "Silver",    unit |-> "USD/oz"],
       [symbol |-> "USO",  name |-> "Crude Oil", unit |-> "USD/barrel"],
       [symbol |-> "CPER", name |-> "Copper",    unit |-> "USD/lb"],
       [symbol |-> "CORN", name |-> "Corn",      unit |-> "USD/bushel"],
       [symbol |-> "WEAT", name |-> "Wheat",     unit |-> "USD/bushel"],
       [symbol |-> "SOYB", name |-> "Soybean",   unit |-> "USD/bushel"],
       [symbol |-> "NIB",  name |-> "Cocoa",     unit |-> "USD/metric ton"] >>

\* the fixed inter-call delay of a batch, in milliseconds
PacingDelayMs == 12000

\* the quotes the provider may serve to a batch
ProviderQuotes == {1, 2}

\* concurrent request slots of the quotes routes
QReq == {"q1", "q2"}

VARIABLES
    now,               \* the UTC calendar day of the wall clock
    domain,            \* the quotes route the requests of this run arrive on
    faults,            \* failures injected so far
    currency_rates,    \* table currency_rates: a set of rows
    commodity_prices,  \* table commodity_prices: a set of rows
    qreq,              \* the quotes requests in flight, one record per slot
    latest,            \* per table, the row most recently written under each key
    newsdb,            \* the news tables: one field per table
    nextEntityId,      \* AUTO_INCREMENT counter of news_entities.id
    held,              \* pool connections acquired and not released
    lastSave,          \* what the latest saveNewsArticleWithRelations call did
    news_daily_cache,  \* table news_daily_cache: a set of rows
    nreq               \* the news request in flight

\* the state of the news store, of its connection pool and of the news route
newsVars == <<newsdb, nextEntityId, held, lastSave, news_daily_cache, nreq>>

vars == <<now, domain, faults, currency_rates, commodity_prices, qreq, latest,
          newsdb, nextEntityId, held, lastSave, news_daily_cache, nreq>>

(***************************************************************************)
(* The quotes provider (Alpha Vantage).                                    *)
(***************************************************************************)
TimeZoneOf(q) == IF q % 2 = 1 THEN Str("UTC") ELSE Str("GMT")

\* the record fetchCurrencyRateFromAPI returns when the provider serves quote q
CurrencyQuote(from, to, q) ==
    [ timeZone      |-> TimeZoneOf(q),
      fromCurrency  |-> from,
      toCurrency    |-> to,
      exchangeRate  |-> Text(q),
      bidPrice      |-> Text(q),
      askPrice      |-> Text(q + 1),
      lastRefreshed |-> q ]

\* the record fetchStockQuoteFromAPI returns when the provider serves quote q
StockQuote(symbol, q) ==
    [ symbol           |-> symbol,
      open             |-> Text(q),
      high             |-> Text(q + 1),
      low              |-> Text(q),
      price            |-> Text(q),
      volume           |-> Text(q),
      latestTradingDay |-> q,
      previousClose    |-> Text(q),
      change           |-> Text(q),
      changePercent    |-> Text(q) ]

(***************************************************************************)
(* models/CurrencyRate.ts                                                  *)
(***************************************************************************)
\* the unique key of currency_rates that ON DUPLICATE KEY UPDATE relies on
CurrencyRateKey(row) == <<row.from_currency, row.to_currency, row.date>>

CurrencyRateRow(data) ==
    [ from_currency |-> data.fromCurrency,
      to_currency   |-> data.toCurrency,
      exchange_rate |-> data.exchangeRate,
      bid_price     |-> data.bidPrice,
      ask_price     |-> data.askPrice,
      time_zone     |-> data.timeZone,
      date          |-> data.date ]

\* an upsert that first removes the rows of earlier dates
saveCurrencyRate_purge(table, data) ==
    {row \in table : row.date = data.date
                       /\ CurrencyRateKey(row) # CurrencyRateKey(CurrencyRateRow(data))}
        \cup {CurrencyRateRow(data)}

\* a plain INSERT on a table without the unique key
saveCurrencyRate_insertOnly(table, data) == table \cup {CurrencyRateRow(data)}

\* INSERT ... ON DUPLICATE KEY UPDATE exchange_rate, bid_price, ask_price,
\* time_zone
saveCurrencyRate(table, data) ==
    LET new == CurrencyRateRow(data)
        dup == {row \in table : CurrencyRateKey(row) = CurrencyRateKey(new)}
    IN  IF dup = {} THEN table \cup {new}
        ELSE (table \ dup) \cup
             { [row EXCEPT !.exchange_rate = new.exchange_rate,
                           !.bid_price     = new.bid_price,
                           !.ask_price     = new.ask_price,
                           !.time_zone     = new.time_zone] : row \in dup }

CurrencyRateData(row) ==
    [ fromCurrency |-> row.from_currency,
      toCurrency   |-> row.to_currency,
      exchangeRate |-> row.exchange_rate,
      bidPrice     |-> IF Truthy(row.bid_price) THEN row.bid_price ELSE Undefined,
      askPrice     |-> IF Truthy(row.ask_price) THEN row.ask_price ELSE Undefined,
      timeZone     |-> OrElse(row.time_zone, Undefined),
      date         |-> row.date ]

getCurrencyRatesByDate(table, date) ==
    SetToSeq({CurrencyRateData(row) : row \in {x \in table : x.date = date}})

(***************************************************************************)
(* models/CommodityPrice.ts                                                *)
(***************************************************************************)
\* the unique key of commodity_prices that ON DUPLICATE KEY UPDATE relies on
CommodityPriceKey(row) == <<row.symbol, row.date>>

CommodityPriceRow(data) ==
    [ symbol         |-> data.symbol,
      name           |-> data.name,
      price          |-> data.price,
      open_price     |-> data.openPrice,
      high_price     |-> data.highPrice,
      low_price      |-> data.lowPrice,
      previous_close |-> data.previousClose,
      change_amount  |-> data.changeAmount,
      change_percent |-> data.changePercent,
      volume         |-> data.volume,
      unit           |-> data.unit,
      date           |-> data.date ]

\* INSERT ... ON DUPLICATE KEY UPDATE of the eight price columns
saveCommodityPrice(table, data) ==
    LET new == CommodityPriceRow(data)
        dup == {row \in table : CommodityPriceKey(row) = CommodityPriceKey(new)}
    IN  IF dup = {} THEN table \cup {new}
        ELSE (table \ dup) \cup
             { [row EXCEPT !.price          = new.price,
                           !.open_price     = new.open_price,
                           !.high_price     = new.high_price,
                           !.low_price      = new.low_price,
                           !.previous_close = new.previous_close,
                           !.change_amount  = new.change_amount,
                           !.change_percent = new.change_percent,
                           !.volume         = new.volume] : row \in dup }

CommodityPriceData(row) ==
    [ symbol        |-> row.symbol,
      name          |-> row.name,
      price         |-> row.price,
      openPrice     |-> OrElse(row.open_price, Undefined),
      highPrice     |-> OrElse(row.high_price, Undefined),
      lowPrice      |-> OrElse(row.low_price, Undefined),
      previousClose |-> OrElse(row.previous_close, Undefined),
      changeAmount  |-> OrElse(row.change_amount, Undefined),
      changePercent |-> OrElse(row.change_percent, Undefined),
      volume        |-> OrElse(row.volume, Undefined),
      unit          |-> row.unit,
      date          |-> row.date ]

getCommodityPricesByDate(table, date) ==
    SetToSeq({CommodityPriceData(row) : row \in {x \in table : x.date = date}})

(***************************************************************************)
(* models/News.ts: the news tables and saveNewsArticleWithRelations.       *)
(***************************************************************************)
\* bound: entity rows inserted over a run (values of the AUTO_INCREMENT id)
MaxEntityId == 3

\* a provider timestamp: an ISO 8601 string with a UTC offset.  Time is
\* counted in half days: tod is the local half of the day, off the number of
\* half days local time is ahead of UTC.
Iso(day, tod, off) == [day |-> day, tod |-> tod, off |-> off]

\* convertToMySQLDateTime: the UTC wall-clock DATETIME of an ISO string
convertToMySQLDateTime(iso) ==
    LET utc == iso.day * 2 + iso.tod - iso.off
    IN  [date |-> utc \div 2, time |-> utc % 2]

\* an optional list of the provider payload: absent, or a list
List(seq) == [list |-> seq]

\* x && x.length > 0
NonEmptyList(x) == x # Undefined /\ Len(x.list) > 0

EmptyNewsDb ==
    [ news_articles          |-> {},
      news_categories        |-> {},
      news_entities          |-> {},
      news_entity_highlights |-> {},
      news_similar           |-> {} ]

\* the parameters of INSERT INTO news_articles
ArticleRow(article) ==
    [ uuid         |-> article.uuid,
      title        |-> article.title,
      description  |-> OrElse(article.description, Null),
      snippet      |-> OrElse(article.snippet, Null),
      url          |-> article.url,
      image_url    |-> OrElse(article.image_url, Null),
      language     |-> article.language,
      published_at |-> convertToMySQLDateTime(article.published_at),
      source       |-> article.source ]

\* the unique key of news_articles that ON DUPLICATE KEY UPDATE relies on
ArticleKey(row) == row.uuid

\* INSERT INTO news_articles ... ON DUPLICATE KEY UPDATE of every other column
UpsertArticle(tx, article) ==
    [tx EXCEPT !.news_articles =
        {row \in @ : ArticleKey(row) # ArticleKey(ArticleRow(article))}
            \cup {ArticleRow(article)}]

CategoryRows(article) ==
    {[news_uuid |-> article.uuid, category |-> article.categories.list[k]] :
        k \in 1..Len(article.categories.list)}

\* a delete that removes nothing
DeleteCategories_noop(tx, article) == tx

\* DELETE FROM news_categories WHERE news_uuid = ?
DeleteCategories(tx, article) ==
    [tx EXCEPT !.news_categories = {row \in @ : row.news_uuid # article.uuid}]

\* INSERT INTO news_categories (news_uuid, category) VALUES ...
InsertCategories(tx, article) ==
    [tx EXCEPT !.news_categories = @ \cup CategoryRows(article)]

\* ON DELETE CASCADE of news_entity_highlights.entity_id
CascadeHighlights(tx) ==
    [tx EXCEPT !.news_entity_highlights =
        {h \in @ : \E e \in tx.news_entities : e.id = h.entity_id}]

\* a delete of the entity rows that takes no highlight row with it
DeleteEntities_noCascade(tx, article) ==
    [tx EXCEPT !.news_entities = {row \in @ : row.news_uuid # article.uuid}]

\* DELETE FROM news_entities WHERE news_uuid = ?
DeleteEntities(tx, article) ==
    CascadeHighlights(
        [tx EXCEPT !.news_entities = {row \in @ : row.news_uuid # article.uuid}])

\* the parameters of INSERT INTO news_entities, under the id the store assigns
EntityRow(article, entity, id) ==
    [ id              |-> id,
      news_uuid       |-> article.uuid,
      symbol          |-> OrElse(entity.symbol, Null),
      name            |-> entity.name,
      exchange        |-> OrElse(entity.exchange, Null),
      exchange_long   |-> OrElse(entity.exchange_long, Null),
      country         |-> OrElse(entity.country, Null),
      type            |-> OrElse(entity.type, Null),
      industry        |-> OrElse(entity.industry, Null),
      match_score     |-> OrElse(entity.match_score, Null),
      sentiment_score |-> OrElse(entity.sentiment_score, Null) ]

InsertEntity(tx, article, k, id) ==
    [tx EXCEPT !.news_entities = @ \cup {EntityRow(article, article.entities.list[k], id)}]

HighlightRows(entity, entityId) ==
    {[ entity_id      |-> entityId,
       highlight      |-> entity.highlights.list[j].highlight,
       sentiment      |-> OrElse(entity.highlights.list[j].sentiment, Null),
       highlighted_in |-> OrElse(entity.highlights.list[j].highlighted_in, Null) ] :
        j \in 1..Len(entity.highlights.list)}

\* INSERT INTO news_entity_highlights ... for the entity just inserted
InsertHighlights(tx, article, k, entityId) ==
    [tx EXCEPT !.news_entity_highlights =
        @ \cup HighlightRows(article.entities.list[k], entityId)]

SimilarRows(article) ==
    {[ news_uuid            |-> article.uuid,
       similar_uuid         |-> article.similar.list[k].uuid,
       similar_title        |-> OrElse(article.similar.list[k].title, Null),
       similar_published_at |->
           IF Truthy(article.similar.list[k].published_at)
           THEN convertToMySQLDateTime(article.similar.list[k].published_at)
           ELSE Null,
       similar_source       |-> OrElse(article.similar.list[k].source, Null) ] :
        k \in 1..Len(article.similar.list)}

\* DELETE FROM news_similar WHERE news_uuid = ?
DeleteSimilar(tx, article) ==
    [tx EXCEPT !.news_similar = {row \in @ : row.news_uuid # article.uuid}]

\* INSERT INTO news_similar ...
InsertSimilar(tx, article) ==
    [tx EXCEPT !.news_similar = @ \cup SimilarRows(article)]

\* row.published_at.toISOString(): the DATETIME read back as a UTC instant
toISOString(dt) == Iso(dt.date, dt.time, 0)

\* ORDER BY published_at DESC
RECURSIVE OrderByPublishedAtDesc(_)
OrderByPublishedAtDesc(rows) ==
    IF rows = {} THEN <<>>
    ELSE LET Stamp(r) == r.published_at.date * 2 + r.published_at.time
             first == CHOOSE r \in rows : \A x \in rows : Stamp(r) >= Stamp(x)
         IN  <<first>> \o OrderByPublishedAtDesc(rows \ {first})

\* the entity object getNewsByDate builds from an entity row
EntityWithHighlights(db, entityRow) ==
    [ symbol          |-> OrElse(entityRow.symbol, Str("")),
      name            |-> entityRow.name,
      exchange        |-> OrElse(entityRow.exchange, Str("")),
      exchange_long   |-> OrElse(entityRow.exchange_long, Str("")),
      country         |-> OrElse(entityRow.country, Str("")),
      type            |-> OrElse(entityRow.type, Str("")),
      industry        |-> OrElse(entityRow.industry, Str("")),
      match_score     |-> OrElse(entityRow.match_score, Num(0)),
      sentiment_score |-> OrElse(entityRow.sentiment_score, Num(0)),
      highlights      |->
          List(SetToSeq({ [ highlight      |-> h.highlight,
                            sentiment      |-> OrElse(h.sentiment, Num(0)),
                            highlighted_in |-> OrElse(h.highlighted_in, Str("")) ] :
                          h \in {x \in db.news_entity_highlights :
                                    x.entity_id = entityRow.id} })) ]

\* the article object getNewsByDate builds from an article row
ArticleWithRelations(db, row) ==
    [ uuid         |-> row.uuid,
      title        |-> row.title,
      description  |-> OrElse(row.description, Undefined),
      snippet      |-> OrElse(row.snippet, Undefined),
      url          |-> row.url,
      image_url    |-> OrElse(row.image_url, Undefined),
      language     |-> row.language,
      published_at |-> toISOString(row.published_at),
      source       |-> row.source,
      categories   |->
          List(SetToSeq({c.category : c \in {x \in db.news_categories :
                                                x.news_uuid = row.uuid}})),
      entities     |->
          LET rows == {x \in db.news_entities : x.news_uuid = row.uuid}
              ids  == Ascending({x.id : x \in rows})
          IN  List([k \in 1..Len(ids) |->
                      EntityWithHighlights(db, CHOOSE x \in rows : x.id = ids[k])]),
      similar      |->
          List(SetToSeq({ [ uuid         |-> x.similar_uuid,
                            title        |-> OrElse(x.similar_title, Str("")),
                            published_at |-> OrElse(x.similar_published_at, Str("")),
                            source       |-> OrElse(x.similar_source, Str("")) ] :
                          x \in {y \in db.news_similar : y.news_uuid = row.uuid} })) ]

\* SELECT ... FROM news_articles WHERE DATE(published_at) = ? ORDER BY
\* published_at DESC, each row with its relations
getNewsByDate(db, date) ==
    LET rows == OrderByPublishedAtDesc(
                    {row \in db.news_articles : row.published_at.date = date})
    IN  [k \in 1..Len(rows) |-> ArticleWithRelations(db, rows[k])]

\* SELECT COUNT(*) ... WHERE DATE(published_at) = ?;  count > 0
checkNewsExistsForDate(db, date) ==
    Cardinality({row \in db.news_articles : row.published_at.date = date}) > 0

\* the article object getHeadlineNews builds from an article row: the
\* categories are read, entities and similar are not set
HeadlineArticle(db, row) ==
    [ uuid         |-> row.uuid,
      title        |-> row.title,
      description  |-> OrElse(row.description, Undefined),
      snippet      |-> OrElse(row.snippet, Undefined),
      url          |-> row.url,
      image_url    |-> OrElse(row.image_url, Undefined),
      language     |-> row.language,
      published_at |-> toISOString(row.published_at),
      source       |-> row.source,
      categories   |->
          List(SetToSeq({c.category : c \in {x \in db.news_categories :
                                                x.news_uuid = row.uuid}})),
      entities     |-> Undefined,
      similar      |-> Undefined ]

\* an order by priority descending that breaks ties by the older article
RECURSIVE OrderByPriorityDesc_oldestFirst(_)
OrderByPriorityDesc_oldestFirst(joined) ==
    IF joined = {} THEN <<>>
    ELSE LET Stamp(j) == j.n.published_at.date * 2 + j.n.published_at.time
             Before(a, b) == \/ a.c.priority > b.c.priority
                             \/ /\ a.c.priority = b.c.priority
                                /\ Stamp(a) <= Stamp(b)
             first == CHOOSE j \in joined : \A x \in joined : Before(j, x)
         IN  <<first>> \o OrderByPriorityDesc_oldestFirst(joined \ {first})

\* ORDER BY c.priority DESC, n.published_at DESC over the joined rows
RECURSIVE OrderByPriorityDesc(_)
OrderByPriorityDesc(joined) ==
    IF joined = {} THEN <<>>
    ELSE LET Stamp(j) == j.n.published_at.date * 2 + j.n.published_at.time
             Before(a, b) == \/ a.c.priority > b.c.priority
                             \/ /\ a.c.priority = b.c.priority
                                /\ Stamp(a) >= Stamp(b)
             first == CHOOSE j \in joined : \A x \in joined : Before(j, x)
         IN  <<first>> \o OrderByPriorityDesc(joined \ {first})

\* SELECT n.* FROM news_articles n INNER JOIN news_daily_cache c ON n.uuid =
\* c.news_uuid WHERE c.date = ? AND c.is_headline = TRUE ORDER BY ..., then
\* one article object per uuid
getHeadlineNews(db, cache, date) ==
    LET joined == { [n |-> n, c |-> c] :
                       n \in db.news_articles,
                       c \in {x \in cache : x.date = date /\ x.is_headline} }
        rows   == OrderByPriorityDesc({j \in joined : j.n.uuid = j.c.news_uuid})
    IN  [k \in 1..Len(rows) |->
            HeadlineArticle(db, CHOOSE n \in db.news_articles :
                                    n.uuid = rows[k].n.uuid)]

\* the unique key of news_daily_cache that ON DUPLICATE KEY UPDATE relies on
DailyCacheKey(row) == <<row.news_uuid, row.date>>

\* the rows of one INSERT INTO news_daily_cache ... ON DUPLICATE KEY UPDATE
\* is_headline = TRUE, priority = VALUES(priority), applied from row k on
RECURSIVE UpsertMarks(_, _, _, _, _)
UpsertMarks(cache, newsUuids, date, priorities, k) ==
    IF k > Len(newsUuids) THEN cache
    ELSE LET new == [ news_uuid   |-> newsUuids[k],
                      date        |-> date,
                      is_headline |-> TRUE,
                      priority    |-> IF k <= Len(priorities)
                                      THEN priorities[k] ELSE 0 ]
         IN  UpsertMarks(
                 {row \in cache : DailyCacheKey(row) # DailyCacheKey(new)}
                     \cup {new},
                 newsUuids, date, priorities, k + 1)

\* a marking that first clears the marks of the date
markHeadlineNews_replaceDay(cache, newsUuids, date, priorities) ==
    IF Len(newsUuids) = 0 THEN cache
    ELSE UpsertMarks({row \in cache : row.date # date}, newsUuids, date, priorities, 1)

markHeadlineNews(cache, newsUuids, date, priorities) ==
    IF Len(newsUuids) = 0 THEN cache
    ELSE UpsertMarks(cache, newsUuids, date, priorities, 1)

\* the statements one call issues, in order: each is an await that may reject
RECURSIVE EntitySteps(_, _)
EntitySteps(article, k) ==
    IF k > Len(article.entities.list) THEN <<>>
    ELSE <<[op |-> "entityInsert", k |-> k]>>
         \o (IF NonEmptyList(article.entities.list[k].highlights)
             THEN <<[op |-> "highlightInsert", k |-> k]>> ELSE <<>>)
         \o EntitySteps(article, k + 1)

Statements(article) ==
    <<[op |-> "getConnection", k |-> 0], [op |-> "beginTransaction", k |-> 0],
      [op |-> "articleUpsert", k |-> 0]>>
    \o (IF NonEmptyList(article.categories)
        THEN <<[op |-> "categoryDelete", k |-> 0], [op |-> "categoryInsert", k |-> 0]>>
        ELSE <<>>)
    \o (IF NonEmptyList(article.entities)
        THEN <<[op |-> "entityDelete", k |-> 0]>> \o EntitySteps(article, 1)
        ELSE <<>>)
    \o (IF NonEmptyList(article.similar)
        THEN <<[op |-> "similarDelete", k |-> 0], [op |-> "similarInsert", k |-> 0]>>
        ELSE <<>>)
    \o <<[op |-> "commit", k |-> 0]>>

\* the effect of one statement on the transaction's view of the tables; t.id
\* is the next AUTO_INCREMENT value, t.entityId the insertId of the last
\* entity insert
Execute(t, article, st) ==
    CASE st.op = "articleUpsert"   -> [t EXCEPT !.db = UpsertArticle(@, article)]
      [] st.op = "categoryDelete"  -> [t EXCEPT !.db = DeleteCategories(@, article)]
      [] st.op = "categoryInsert"  -> [t EXCEPT !.db = InsertCategories(@, article)]
      [] st.op = "entityDelete"    -> [t EXCEPT !.db = DeleteEntities(@, article)]
      [] st.op = "entityInsert"    ->
            [t EXCEPT !.db = InsertEntity(@, article, st.k, t.id),
                      !.entityId = t.id, !.id = t.id + 1]
      [] st.op = "highlightInsert" ->
            [t EXCEPT !.db = InsertHighlights(@, article, st.k, t.entityId)]
      [] st.op = "similarDelete"   -> [t EXCEPT !.db = DeleteSimilar(@, article)]
      [] st.op = "similarInsert"   -> [t EXCEPT !.db = InsertSimilar(@, article)]
      [] OTHER -> t

RECURSIVE Run(_, _, _, _, _)
\* the statements sts[k], ..., sts[upto - 1] executed in order
Run(t, article, sts, k, upto) ==
    IF k >= upto THEN t
    ELSE Run(Execute(t, article, sts[k]), article, sts, k + 1, upto)

\* a rollback that leaves the statements already executed in place
Rollback_keepsWrites(before, t) == t.db

\* connection.rollback(): the tables are as before beginTransaction
Rollback(before, t) == before

NoSave ==
    [ outcome    |-> "none",  \* committed, failed
      article    |-> Null,    \* the article of a committed call
      uuid       |-> "none",  \* the uuid of the article of the call
      failedAt   |-> "none",  \* the statement that rejected
      catsBefore |-> 0,       \* category rows of the uuid before a committed call
      acquired   |-> 0,       \* connections this call took from the pool
      released   |-> 0 ]      \* connection.release() calls of this call

\* the AUTO_INCREMENT values the statements before position fail consumed
IdsUsed(sts, fail) ==
    Cardinality({k \in 1..(fail - 1) : sts[k].op = "entityInsert"})

\* the exit of the call: t is the transaction after the statements that were
\* executed, used the ids the call consumed
SaveOutcome(db, id, fail, op, t, used) ==
    IF fail = 0
    THEN \* await connection.commit(); finally release
         [ok |-> TRUE, db |-> t.db, id |-> t.id, failedAt |-> op,
          acquired |-> 1, released |-> 1]
    ELSE IF op = "getConnection"
    THEN \* pool.getConnection() rejects before the try block
         [ok |-> FALSE, db |-> db, id |-> id, failedAt |-> op,
          acquired |-> 0, released |-> 0]
    ELSE IF op = "beginTransaction"
    THEN \* connection.beginTransaction() rejects before the try block
         [ok |-> FALSE, db |-> db, id |-> id, failedAt |-> op,
          acquired |-> 1, released |-> 0]
    ELSE \* catch: rollback, rethrow; finally release
         [ok |-> FALSE, db |-> Rollback(db, t), id |-> id + used, failedAt |-> op,
          acquired |-> 1, released |-> 1]

\* saveNewsArticleWithRelations(article), with the statement at position
\* fail rejecting (0: none does).  The result carries the tables, the id
\* counter (InnoDB does not give back the ids of a rolled-back transaction)
\* and the pool after the call, and whether the call resolved.  On the catch
\* path the finally block releases whether connection.rollback() resolves or
\* rejects; it rejects when the connection is lost, and the server then
\* discards the transaction.
SaveResult(db, id, article, fail) ==
    LET sts  == Statements(article)
        t0   == [db |-> db, id |-> id, entityId |-> 0]
    IN  SaveOutcome(db, id, fail, IF fail = 0 THEN "none" ELSE sts[fail].op,
                    Run(t0, article, sts, 1, IF fail = 0 THEN Len(sts) + 1 ELSE fail),
                    IdsUsed(sts, fail))

\* the positions at which a statement of the call may reject
FailPoints(article) == 1..Len(Statements(article))

\* the ids the entity inserts of the call may consume
FitsIds(article) ==
    nextEntityId + (IF NonEmptyList(article.entities)
                    THEN Len(article.entities.list) ELSE 0) <= MaxEntityId + 1

(***************************************************************************)
(* The news provider's articles (Marketaux).  Scores are in thousandths.   *)
(***************************************************************************)
H1 == [highlight |-> "h1", sentiment |-> Num(250), highlighted_in |-> Str("title")]

H2 == [highlight |-> "h2", sentiment |-> Num(0), highlighted_in |-> Str("")]

E1 ==
    [ symbol |-> Str("AAPL"), name |-> "Apple", exchange |-> Str("NASDAQ"),
      exchange_long |-> Str("NASDAQ Stock Exchange"), country |-> Str("us"),
      type |-> Str("equity"), industry |-> Str("Technology"),
      match_score |-> Num(10000), sentiment_score |-> Num(-500),
      highlights |-> List(<<H1, H2>>) ]

E2 ==
    [ symbol |-> Str(""), name |-> "Fed", exchange |-> Str(""),
      exchange_long |-> Str(""), country |-> Str(""),
      type |-> Str("index"), industry |-> Str(""),
      match_score |-> Num(0), sentiment_score |-> Num(0),
      highlights |-> List(<<>>) ]

\* an entity exactly on both headline thresholds (|sentiment| 0.3, match 20)
E3 ==
    [ symbol |-> Str("MSFT"), name |-> "Microsoft", exchange |-> Str("NASDAQ"),
      exchange_long |-> Str("NASDAQ Stock Exchange"), country |-> Str("us"),
      type |-> Str("equity"), industry |-> Str("Technology"),
      match_score |-> Num(20000), sentiment_score |-> Num(300),
      highlights |-> List(<<>>) ]

\* an entity of weak sentiment (0.104) and a match score above the threshold
E4 ==
    [ symbol |-> Str("TSLA"), name |-> "Tesla", exchange |-> Str("NASDAQ"),
      exchange_long |-> Str("NASDAQ Stock Exchange"), country |-> Str("us"),
      type |-> Str("equity"), industry |-> Str("Automotive"),
      match_score |-> Num(21000), sentiment_score |-> Num(104),
      highlights |-> List(<<>>) ]

S1 == [uuid |-> "s1", title |-> Str("Related"), published_at |-> Iso(1, 0, 0),
       source |-> Str("example.com")]

CategoryLists == {Undefined, List(<<"c2">>), List(<<"c1", "c2", "c3">>)}

EntityLists == {List(<<>>), List(<<E1>>), List(<<E2, E1>>)}

SimilarLists == {Undefined, List(<<S1>>)}

Article(uuid, published_at, categories, entities, similar) ==
    [ uuid         |-> uuid,
      title        |-> "Title of " \o uuid,
      description  |-> Str("d"),
      snippet      |-> Str(""),
      url          |-> "https://example.com/" \o uuid,
      image_url    |-> Undefined,
      language     |-> "en",
      published_at |-> published_at,
      source       |-> "example.com",
      categories   |-> categories,
      entities     |-> entities,
      similar      |-> similar ]

\* the versions of article a (the provider republishes it when it adds the
\* similar references: Iso(2, 0, 1) is a local day 2 that is still day 1 in
\* UTC, Iso(2, 1, 0) is day 2 in UTC), and one version of article b
Articles ==
    { Article("a", IF s = Undefined THEN Iso(2, 0, 1) ELSE Iso(2, 1, 0), c, e, s) :
        c \in CategoryLists, e \in EntityLists, s \in SimilarLists }
    \cup {Article("b", Iso(2, 1, 0), List(<<"c2">>), List(<<>>), List(<<S1>>))}

\* the effect on the store and the pool of awaiting
\* saveNewsArticleWithRelations(article); the call resolves iff fail = 0
AwaitSave(article, fail) ==
    /\ fail # 0 => faults < MaxFaults
    /\ \E res \in {SaveResult(newsdb, nextEntityId, article, fail)} :
           /\ newsdb' = res.db
           /\ nextEntityId' = res.id
           /\ held' = held + res.acquired - res.released
           /\ lastSave' =
                 [ outcome    |-> IF res.ok THEN "committed" ELSE "failed",
                   article    |-> IF res.ok THEN article ELSE Null,
                   uuid       |-> article.uuid,
                   failedAt   |-> res.failedAt,
                   catsBefore |->
                       IF res.ok
                       THEN Cardinality({row \in newsdb.news_categories :
                                            row.news_uuid = article.uuid})
                       ELSE 0,
                   acquired   |-> res.acquired,
                   released   |-> res.released ]
    /\ faults' = IF fail = 0 THEN faults ELSE faults + 1

\* a caller awaits saveNewsArticleWithRelations(article)
saveNewsArticleWithRelations(article, fail) ==
    /\ FitsIds(article)
    /\ AwaitSave(article, fail)
    /\ UNCHANGED <<now, domain, currency_rates, commodity_prices, qreq, latest,
                   news_daily_cache, nreq>>

(***************************************************************************)
(* services/dataService.ts: the currency and commodity orchestrators.      *)
(* A request slot holds the locals of one invocation; calls, okIdx,        *)
(* sinceCall, unpaced, writes and seen record what the invocation did.     *)
(***************************************************************************)
IdleQ ==
    [ kind      |-> "none",  \* "currency" or "commodity"
      pc        |-> "idle",  \* idle, call, save, sleep, done, failed
      today     |-> 0,       \* const today = getTodayDate()
      quote     |-> 0,       \* the quote the provider serves to this batch
      i         |-> 0,       \* position of the for-of loop in the tracked list
      rate      |-> Null,    \* const rate / const quote
      results   |-> <<>>,    \* const results = []
      data      |-> <<>>,    \* the value returned
      seen      |-> <<>>,    \* the rows the first store read returned
      calls     |-> <<>>,    \* list positions of the provider calls issued
      okIdx     |-> {},      \* positions whose provider call and upsert succeeded
      sinceCall |-> 0,       \* milliseconds waited since the last provider call
      unpaced   |-> FALSE,   \* a provider call followed another without the delay
      writes    |-> 0,       \* store writes issued
      late      |-> FALSE,   \* a store write was issued on a later day than today
      first     |-> FALSE,   \* this batch wrote the first row of its date
      delays    |-> 0,       \* pacing delays the batch has waited
      env       |-> Null,    \* API_KEY as the provider client of the batch read it
      response  |-> Null,    \* what the network returned to the last provider call
      fetches   |-> 0 ]      \* network requests issued

Tracked(kind) == IF kind = "currency" THEN MAIN_CURRENCIES ELSE POPULAR_COMMODITIES

\* an incoming request takes the first free slot
FreeSlot(r) ==
    /\ qreq[r].pc = "idle"
    /\ r = "q2" => qreq["q1"].pc # "idle"

\* getTodayDate(): the UTC calendar date of the wall clock
getTodayDate == now

\* data.length === 0 decides between the cached rows and a fetch
CacheMiss_always(data) == TRUE

\* a test that takes a day with fewer rows than tracked pairs for a miss
CacheMiss_incomplete(data) == Len(data) < Len(MAIN_CURRENCIES)

CacheMiss(data) == Len(data) = 0

\* the for-of loop moves to the next tracked instrument, or returns results
NextInstrument(q) ==
    IF q.i = Len(Tracked(q.kind))
    THEN [q EXCEPT !.pc = "done", !.data = q.results, !.rate = Null]
    ELSE [q EXCEPT !.pc = "call", !.i = q.i + 1, !.rate = Null]

\* a catch block that throws the error on to the caller
CatchAndContinue_rethrow(q) == [q EXCEPT !.pc = "failed", !.rate = Null]

\* the catch block of an iteration that aborts the batch instead
CatchAndContinue_abort(q) == [q EXCEPT !.pc = "done", !.data = q.results, !.rate = Null]

\* a catch block that tries the same instrument again
CatchAndContinue_retry(q) == [q EXCEPT !.pc = "call", !.rate = Null]

\* catch (error) { console.error(...) }: the loop goes on
CatchAndContinue(q) == NextInstrument(q)

\* history of a provider call issued at list position q.i
IssueCall(q) ==
    [q EXCEPT !.calls = Append(q.calls, q.i),
              !.unpaced = q.unpaced \/ (Len(q.calls) > 0 /\ q.sinceCall < PacingDelayMs),
              !.sinceCall = 0]

checkAndGetCurrencyRates(r) ==
    /\ domain \in {"none", "currency"}
    /\ domain' = "currency"
    /\ FreeSlot(r)
    /\ LET today == getTodayDate
           data  == getCurrencyRatesByDate(currency_rates, today)
           q     == [IdleQ EXCEPT !.kind = "currency", !.today = today, !.seen = data]
       IN  IF CacheMiss(data)
           THEN \E level \in ProviderQuotes :
                   qreq' = [qreq EXCEPT ![r] =
                               [q EXCEPT !.pc = "call", !.i = 1, !.quote = level]]
           ELSE qreq' = [qreq EXCEPT ![r] = [q EXCEPT !.pc = "done", !.data = data]]
    /\ UNCHANGED <<now, faults, currency_rates, commodity_prices, latest, newsVars>>

checkAndGetCommodityPrices(r) ==
    /\ domain \in {"none", "commodity"}
    /\ domain' = "commodity"
    /\ FreeSlot(r)
    /\ LET today == getTodayDate
           data  == getCommodityPricesByDate(commodity_prices, today)
           q     == [IdleQ EXCEPT !.kind = "commodity", !.today = today, !.seen = data]
       IN  IF CacheMiss(data)
           THEN \E level \in ProviderQuotes :
                   qreq' = [qreq EXCEPT ![r] =
                               [q EXCEPT !.pc = "call", !.i = 1, !.quote = level]]
           ELSE qreq' = [qreq EXCEPT ![r] = [q EXCEPT !.pc = "done", !.data = data]]
    /\ UNCHANGED <<now, faults, currency_rates, commodity_prices, latest, newsVars>>

\* an orchestrator that swallows the error of its first store read and
\* never returns
ReadRejected_hang(q) == [q EXCEPT !.pc = "hung"]

\* the error of the first store read leaves the orchestrator: no catch
\* stands between the await and the route
ReadRejected(q) == [q EXCEPT !.pc = "failed"]

\* let data = await getCurrencyRatesByDate(today) rejects
getCurrencyRatesByDateThrows(r) ==
    /\ domain \in {"none", "currency"}
    /\ domain' = "currency"
    /\ FreeSlot(r)
    /\ faults < MaxFaults
    /\ faults' = faults + 1
    /\ qreq' = [qreq EXCEPT ![r] =
            ReadRejected([IdleQ EXCEPT !.kind = "currency", !.today = getTodayDate])]
    /\ UNCHANGED <<now, currency_rates, commodity_prices, latest, newsVars>>

\* let data = await getCommodityPricesByDate(today) rejects
getCommodityPricesByDateThrows(r) ==
    /\ domain \in {"none", "commodity"}
    /\ domain' = "commodity"
    /\ FreeSlot(r)
    /\ faults < MaxFaults
    /\ faults' = faults + 1
    /\ qreq' = [qreq EXCEPT ![r] =
            ReadRejected([IdleQ EXCEPT !.kind = "commodity", !.today = getTodayDate])]
    /\ UNCHANGED <<now, currency_rates, commodity_prices, latest, newsVars>>

\* Step 1 of an iteration: the provider call returns a rate
fetchCurrencyRateFromAPI(r) ==
    /\ qreq[r].pc = "call" /\ qreq[r].kind = "currency"
    /\ LET q == IssueCall(qreq[r])
           c == MAIN_CURRENCIES[q.i]
       IN  qreq' = [qreq EXCEPT ![r] =
                [q EXCEPT !.pc = "save", !.rate = CurrencyQuote(c.from, c.to, q.quote)]]
    /\ UNCHANGED <<now, domain, faults, currency_rates, commodity_prices, latest, newsVars>>

fetchStockQuoteFromAPI(r) ==
    /\ qreq[r].pc = "call" /\ qreq[r].kind = "commodity"
    /\ LET q == IssueCall(qreq[r])
           c == POPULAR_COMMODITIES[q.i]
       IN  qreq' = [qreq EXCEPT ![r] =
                [q EXCEPT !.pc = "save", !.rate = StockQuote(c.symbol, q.quote)]]
    /\ UNCHANGED <<now, domain, faults, currency_rates, commodity_prices, latest, newsVars>>

\* Step 1 of an iteration: the provider call throws (no key, HTTP error,
\* Note / Error Message sentinel, missing payload)
ProviderThrows(r) ==
    /\ qreq[r].pc = "call"
    /\ faults < MaxFaults
    /\ faults' = faults + 1
    /\ qreq' = [qreq EXCEPT ![r] = CatchAndContinue(IssueCall(qreq[r]))]
    /\ UNCHANGED <<now, domain, currency_rates, commodity_prices, latest, newsVars>>

\* the provider is out of reach: every call of the batch may throw
ProviderOutage(r) ==
    /\ qreq[r].pc = "call"
    /\ qreq' = [qreq EXCEPT ![r] = CatchAndContinue(IssueCall(qreq[r]))]
    /\ UNCHANGED <<now, domain, faults, currency_rates, commodity_prices, latest,
                   newsVars>>

\* a row dated by the clock at the time of the write
CurrencyResult_clockDate(q) ==
    LET c == MAIN_CURRENCIES[q.i] IN
    [ fromCurrency |-> c.from,
      toCurrency   |-> c.to,
      exchangeRate |-> parseFloat(q.rate.exchangeRate),
      bidPrice     |-> parseFloat(q.rate.bidPrice),
      askPrice     |-> parseFloat(q.rate.askPrice),
      timeZone     |-> q.rate.timeZone,
      date         |-> getTodayDate ]

\* the argument of saveCurrencyRate and the element pushed to results
CurrencyResult(q) ==
    LET c == MAIN_CURRENCIES[q.i] IN
    [ fromCurrency |-> c.from,
      toCurrency   |-> c.to,
      exchangeRate |-> parseFloat(q.rate.exchangeRate),
      bidPrice     |-> parseFloat(q.rate.bidPrice),
      askPrice     |-> parseFloat(q.rate.askPrice),
      timeZone     |-> q.rate.timeZone,
      date         |-> q.today ]

\* the argument of saveCommodityPrice
CommoditySaveArg(q) ==
    LET c == POPULAR_COMMODITIES[q.i] IN
    [ symbol        |-> c.symbol,
      name          |-> c.name,
      price         |-> q.rate.price,
      openPrice     |-> q.rate.open,
      highPrice     |-> q.rate.high,
      lowPrice      |-> q.rate.low,
      previousClose |-> q.rate.previousClose,
      changeAmount  |-> q.rate.change,
      changePercent |-> q.rate.changePercent,
      volume        |-> q.rate.volume,
      unit          |-> c.unit,
      date          |-> q.today ]

\* the element pushed to results (format for frontend)
CommodityResult(q) ==
    LET c == POPULAR_COMMODITIES[q.i] IN
    [ symbol        |-> c.symbol,
      name          |-> c.name,
      price         |-> q.rate.price,
      open          |-> q.rate.open,
      high          |-> q.rate.high,
      low           |-> q.rate.low,
      previousClose |-> q.rate.previousClose,
      change        |-> q.rate.change,
      changePercent |-> q.rate.changePercent,
      volume        |-> q.rate.volume,
      unit          |-> c.unit,
      date          |-> q.today ]

\* history of a successful upsert at list position q.i
Wrote(q) ==
    [q EXCEPT !.okIdx = q.okIdx \cup {q.i}, !.writes = q.writes + 1,
              !.late = q.late \/ now # q.today,
              !.first = q.first \/ (IF q.kind = "currency"
                                    THEN getCurrencyRatesByDate(currency_rates, q.today)
                                    ELSE getCommodityPricesByDate(commodity_prices, q.today))
                                   = <<>>]

\* Steps 2-4 after a successful upsert: push the result, then wait unless
\* this was the last instrument
AfterSave(q, result) ==
    LET q1 == [q EXCEPT !.results = Append(q.results, result)]
    IN  IF q.i # Len(Tracked(q.kind))
        THEN [q1 EXCEPT !.pc = "sleep", !.rate = Null]
        ELSE NextInstrument(q1)

SaveCurrencyStep(r) ==
    /\ qreq[r].pc = "save" /\ qreq[r].kind = "currency"
    /\ currency_rates' = saveCurrencyRate(currency_rates, CurrencyResult(qreq[r]))
    /\ qreq' = [qreq EXCEPT ![r] = AfterSave(Wrote(qreq[r]), CurrencyResult(qreq[r]))]
    /\ LET new == CurrencyRateRow(CurrencyResult(qreq[r]))
       IN  latest' = [latest EXCEPT !.currency =
               {x \in @ : CurrencyRateKey(x) # CurrencyRateKey(new)} \cup {new}]
    /\ UNCHANGED <<now, domain, faults, commodity_prices, newsVars>>

SaveCommodityStep(r) ==
    /\ qreq[r].pc = "save" /\ qreq[r].kind = "commodity"
    /\ commodity_prices' = saveCommodityPrice(commodity_prices, CommoditySaveArg(qreq[r]))
    /\ qreq' = [qreq EXCEPT ![r] = AfterSave(Wrote(qreq[r]), CommodityResult(qreq[r]))]
    /\ LET new == CommodityPriceRow(CommoditySaveArg(qreq[r]))
       IN  latest' = [latest EXCEPT !.commodity =
               {x \in @ : CommodityPriceKey(x) # CommodityPriceKey(new)} \cup {new}]
    /\ UNCHANGED <<now, domain, faults, currency_rates, newsVars>>

\* Step 2 of an iteration: pool.execute rejects (connection loss, constraint)
SaveThrows(r) ==
    /\ qreq[r].pc = "save"
    /\ faults < MaxFaults
    /\ faults' = faults + 1
    /\ qreq' = [qreq EXCEPT ![r] = CatchAndContinue(qreq[r])]
    /\ UNCHANGED <<now, domain, currency_rates, commodity_prices, latest, newsVars>>

\* the store rejects writes: every upsert of the batch may reject
StoreOutage(r) ==
    /\ qreq[r].pc = "save"
    /\ qreq' = [qreq EXCEPT ![r] = CatchAndContinue(qreq[r])]
    /\ UNCHANGED <<now, domain, faults, currency_rates, commodity_prices, latest,
                   newsVars>>

(***************************************************************************)
(* The Alpha Vantage client, as a function of the key of the process and   *)
(* of what the network returns.                                            *)
(***************************************************************************)
\* process.env.VITE_ALPHA_VANTAGE_API_KEY / VITE_MARKETAUX_API_KEY: unset,
\* set to nothing, or set
ApiKeys == {Undefined, Str(""), Str("key")}

\* the bodies the quotes provider may send: a rate-limit Note, an Error
\* Message and the rate or quote section, each present or not
QuoteBodies ==
    { [ Note |-> n, ErrorMessage |-> e, section |-> s ] :
         n \in {Undefined, Str("Thank you for using Alpha Vantage!")},
         e \in {Undefined, Str("Invalid API call.")},
         s \in BOOLEAN }

\* what await fetch(url) resolves to
QuoteResponses ==
    {[ok |-> FALSE, body |-> Undefined]}
        \cup {[ok |-> TRUE, body |-> b] : b \in QuoteBodies}

\* throw new Error(message), before or after the network request
Threw(message, fetched) ==
    [threw |-> TRUE, message |-> message, value |-> Null, fetched |-> fetched]

\* return {...}
Returned(value) ==
    [threw |-> FALSE, message |-> "", value |-> value, fetched |-> 1]

\* a client that looks at the section first and at the sentinels only when
\* the section is missing
AlphaVantageClient_sectionFirst(key, response, record) ==
    IF ~Truthy(key) THEN Threw("Alpha Vantage API key is not configured", 0)
    ELSE IF ~response.ok THEN Threw("API request failed", 1)
    ELSE IF response.body.section THEN Returned(record)
    ELSE IF Truthy(response.body.Note)
    THEN Threw("API call frequency limit exceeded", 1)
    ELSE IF Truthy(response.body.ErrorMessage)
    THEN Threw(response.body.ErrorMessage.str, 1)
    ELSE Threw("not found", 1)

\* a client that tests the key after the network request
AlphaVantageClient_fetchFirst(key, response, record) ==
    IF ~Truthy(key) THEN Threw("Alpha Vantage API key is not configured", 1)
    ELSE IF ~response.ok THEN Threw("API request failed", 1)
    ELSE IF Truthy(response.body.Note)
    THEN Threw("API call frequency limit exceeded", 1)
    ELSE IF Truthy(response.body.ErrorMessage)
    THEN Threw(response.body.ErrorMessage.str, 1)
    ELSE IF ~response.body.section THEN Threw("not found", 1)
    ELSE Returned(record)

\* fetchCurrencyRateFromAPI / fetchStockQuoteFromAPI: the key test, the
\* request, response.ok, data['Note'], data['Error Message'], the section;
\* record is what the function builds from the section
AlphaVantageClient(key, response, record) ==
    IF ~Truthy(key) THEN Threw("Alpha Vantage API key is not configured", 0)
    ELSE IF ~response.ok THEN Threw("API request failed", 1)
    ELSE IF Truthy(response.body.Note)
    THEN Threw("API call frequency limit exceeded", 1)
    ELSE IF Truthy(response.body.ErrorMessage)
    THEN Threw(response.body.ErrorMessage.str, 1)
    ELSE IF ~response.body.section THEN Threw("not found", 1)
    ELSE Returned(record)

\* the record the client of the batch builds at list position q.i
QuoteRecord(q) ==
    IF q.kind = "currency"
    THEN CurrencyQuote(MAIN_CURRENCIES[q.i].from, MAIN_CURRENCIES[q.i].to, q.quote)
    ELSE StockQuote(POPULAR_COMMODITIES[q.i].symbol, q.quote)

\* Step 1 of an iteration, with the client spelled out: it throws into the
\* catch of the iteration or returns the record to save.  API_KEY is read
\* once per process; a failure of a configured client counts as a fault.
CallQuotesProvider(r) ==
    /\ qreq[r].pc = "call"
    /\ \E key \in (IF qreq[r].env = Null THEN ApiKeys ELSE {qreq[r].env}) :
       \E response \in (IF Truthy(key) THEN QuoteResponses ELSE {Null}) :
       \E out \in {AlphaVantageClient(key, response, QuoteRecord(qreq[r]))} :
       \E q \in {[IssueCall(qreq[r]) EXCEPT !.env = key, !.response = response,
                                           !.fetches = @ + out.fetched]} :
          /\ (out.threw /\ Truthy(key)) => faults < MaxFaults
          /\ faults' = IF out.threw /\ Truthy(key) THEN faults + 1 ELSE faults
          /\ qreq' = [qreq EXCEPT ![r] =
                         IF out.threw THEN CatchAndContinue(q)
                         ELSE [q EXCEPT !.pc = "save", !.rate = out.value]]
    /\ UNCHANGED <<now, domain, currency_rates, commodity_prices, latest, newsVars>>

\* Step 4: await new Promise(resolve => setTimeout(resolve, 12000))
PacingDelay(r) ==
    /\ qreq[r].pc = "sleep"
    /\ qreq' = [qreq EXCEPT ![r] =
            NextInstrument([qreq[r] EXCEPT !.sinceCall = qreq[r].sinceCall + PacingDelayMs,
                                           !.delays = qreq[r].delays + 1])]
    /\ UNCHANGED <<now, domain, faults, currency_rates, commodity_prices, latest, newsVars>>

\* res.json({ success: true, data })
Reply200(data) == [status |-> 200, body |-> [success |-> TRUE, data |-> data]]

\* res.status(500).json({ success: false, error: error.message })
Reply500(message) ==
    [status |-> 500, body |-> [success |-> FALSE, error |-> message]]

\* the answer of the /currency-rates and /commodity-prices routes: the data
\* the orchestrator returned, or the message of the error it threw
QuotesResponse(q) ==
    IF q.pc = "done" THEN Reply200(q.data) ELSE Reply500("Error")

\* the route sends its answer and the slot is free again
RespondQuotes(r) ==
    /\ qreq[r].pc \in {"done", "failed"}
    /\ qreq' = [qreq EXCEPT ![r] = IdleQ]
    /\ UNCHANGED <<now, domain, faults, currency_rates, commodity_prices, latest, newsVars>>

(***************************************************************************)
(* services/newsService.ts: the news orchestrator.  The request record     *)
(* holds the locals of one invocation; calls, attempts and okIdx record    *)
(* what the invocation did.                                                *)
(***************************************************************************)
NoParams ==
    [ symbols |-> Undefined, sentiment_gte |-> Undefined, sentiment_lte |-> Undefined,
      page |-> Undefined, limit |-> Undefined ]

\* the filters of the params object the /news route builds from a query
NewsParams ==
    { NoParams,
      [NoParams EXCEPT !.symbols = Str("AAPL")],
      [NoParams EXCEPT !.sentiment_gte = Num(0)],
      [NoParams EXCEPT !.sentiment_lte = Num(0)] }

\* articles of the provider's feed: N1 is published on UTC day 1 and carries
\* an entity of strong sentiment, N2 and N3 are published on UTC day 2, N4 is
\* a later version of N1
N1 == Article("a", Iso(2, 0, 1), List(<<"c1", "c2", "c3">>), List(<<E1>>), List(<<S1>>))

N2 == Article("b", Iso(2, 1, 0), List(<<"c2">>), List(<<>>), List(<<S1>>))

N3 == Article("c", Iso(2, 1, 0), Undefined, List(<<E2>>), Undefined)

N4 == Article("a", Iso(2, 1, 0), List(<<"c2">>), List(<<E1>>), Undefined)

\* the data field of a provider response: absent, empty, or articles
ProviderResponses ==
    {Undefined, List(<<>>), List(<<N1, N2, N3>>), List(<<N2, N4>>)}

\* articles on either side of the headline rule: N5 sits on both thresholds,
\* N6 passes on its match score only, N7 is another version of article a
N5 == Article("b", Iso(2, 1, 0), Undefined, List(<<E3>>), Undefined)

N6 == Article("c", Iso(2, 1, 0), Undefined, List(<<E4>>), Undefined)

N7 == Article("a", Iso(2, 1, 0), List(<<"c2">>), List(<<E4>>), Undefined)

\* articles without entities, and a provider that holds three of them
N8 == Article("c", Iso(2, 1, 0), Undefined, List(<<>>), Undefined)

N9 == Article("d", Iso(2, 1, 0), List(<<"c1">>), Undefined, Undefined)

PageFeeds == {List(<<>>), List(<<N2, N8, N9>>)}

\* the params the /news route passes to getNewsWithPagination: page and
\* limit are always set
MaxPage == 3

PageLimits == {1, 2, 50}

PageParams ==
    { [f EXCEPT !.page = Num(page), !.limit = Num(limit)] :
         f \in {NoParams, [NoParams EXCEPT !.symbols = Str("AAPL")]},
         page \in 1..MaxPage, limit \in PageLimits }

\* an article of the priority of N6, published half a day before it
N10 == Article("d", Iso(2, 0, 0), Undefined, List(<<E4>>), Undefined)

\* a version of article a whose only entity sits on the thresholds, and the
\* responses of a provider that republishes article a
N11 == Article("a", Iso(2, 1, 0), Undefined, List(<<E3>>), Undefined)

MarkFeeds == {List(<<N1>>), List(<<N7>>), List(<<N11>>), List(<<N6>>)}

\* responses that exercise the headline rule; the third one carries two
\* versions of one uuid, the last one two headlines of one priority
HeadlineResponses ==
    {List(<<N1, N5, N6>>), List(<<N2, N5>>), List(<<N7, N1>>), List(<<N10, N6>>)}

RECURSIVE EntityCount(_)
\* the entity rows the articles of a list insert
EntityCount(data) ==
    IF data = <<>> THEN 0
    ELSE (IF NonEmptyList(Head(data).entities)
          THEN Len(Head(data).entities.list) ELSE 0) + EntityCount(Tail(data))

\* the ids the entity inserts of a cycle may consume
FitsResponse(resp) ==
    resp # Undefined => nextEntityId + EntityCount(resp.list) <= MaxEntityId + 1

IdleN ==
    [ pc            |-> "idle",  \* idle, check, read, fetch, save, mark,
                                 \* headlines, done, failed
      fn            |-> "checkAndGetNews",   \* the function the route called
      params        |-> NoParams,
      today         |-> 0,
      headlinesDate |-> 0,       \* const today of getHeadlineNewsForToday
      hasNews       |-> FALSE,
      news          |-> <<>>,    \* the rows read for today
      data          |-> <<>>,    \* the data of the provider response
      i             |-> 1,       \* the position of the loop in data
      savedArticles |-> <<>>,
      headlineUuids |-> <<>>,
      headlineIdx   |-> <<>>,    \* the positions in data of the headlineUuids
      passed        |-> Null,    \* the arguments of the markHeadlineNews call
      markFailed    |-> FALSE,   \* the markHeadlineNews call rejected
      error         |-> Null,    \* the message of the error thrown
      result        |-> <<>>,    \* the articles the invocation returns
      meta          |-> Null,    \* total, page and limit of a paginated result
      feed          |-> Null,    \* what the provider held when it was asked
      calls         |-> 0,       \* provider calls of the invocation
      attempts      |-> <<>>,    \* positions whose save was awaited, in order
      okIdx         |-> {},      \* positions whose save resolved
      env           |-> Null,    \* API_KEY as the provider client read it
      response      |-> Null,    \* what the network returned to the provider call
      fetches       |-> 0,       \* network requests issued
      rows          |-> <<>>,    \* the article rows the first query of a read returned
      partial       |-> Null,    \* the article object a read is filling in
      entityRows    |-> <<>>,    \* the entity rows read for that article
      j             |-> 1 ]      \* the entity whose highlights are read next

\* a slice that starts at page * limit
Paginate_fromZero(list, page, limit) ==
    slice(list, page * limit, page * limit + limit)

\* const startIndex = (page - 1) * limit; const endIndex = startIndex + limit;
\* articles.slice(startIndex, endIndex)
Paginate(list, page, limit) ==
    slice(list, (page - 1) * limit, (page - 1) * limit + limit)

\* the invocation returns: checkAndGetNews the list itself (which
\* getHeadlineNewsForToday drops before it reads the headlines),
\* getNewsWithPagination {articles, total, page, limit} with
\* page = params.page || 1 and limit = params.limit || 50
Return(q, list) ==
    IF q.fn = "getNewsWithPagination"
    THEN LET page  == OrElse(q.params.page, Num(1)).num
             limit == OrElse(q.params.limit, Num(50)).num
         IN  [q EXCEPT !.pc     = "done",
                       !.result = Paginate(list, page, limit),
                       !.meta   = [total |-> Len(list), page |-> page,
                                   limit |-> limit]]
    ELSE IF q.fn = "getHeadlineNewsForToday"
    THEN [q EXCEPT !.pc = "headlines"]
    ELSE [q EXCEPT !.pc = "done", !.result = list]

\* the query fetchAndSaveNews sends: {...params, limit: Math.min(
\* params.limit || 50, 100)}; the language does not bear on the model
Query(params) ==
    [params EXCEPT !.limit = Num(Min(OrElse(params.limit, Num(50)).num, 100))]

\* the data of the provider's answer to a query over the articles it holds:
\* page query.page (1 when the query names none) of pages of query.limit
ProviderData(feed, query) ==
    IF feed = Undefined THEN Undefined
    ELSE LET page == IF Truthy(query.page) THEN query.page.num ELSE 1
         IN  List(slice(feed.list, (page - 1) * query.limit.num,
                        (page - 1) * query.limit.num + query.limit.num))

\* a cache test that takes a bound of 0 for an absent bound
BypassCache_truthy(params) ==
    \/ Truthy(params.symbols)
    \/ Truthy(params.sentiment_gte)
    \/ Truthy(params.sentiment_lte)

\* params.symbols || params.sentiment_gte !== undefined
\*                || params.sentiment_lte !== undefined
BypassCache(params) ==
    \/ Truthy(params.symbols)
    \/ params.sentiment_gte # Undefined
    \/ params.sentiment_lte # Undefined

\* an orchestrator that first waits until no batch is inside its pacing delay
checkAndGetNews_behindBatch(params) ==
    /\ \A r \in QReq : qreq[r].pc # "sleep"
    /\ nreq.pc = "idle"
    /\ LET hasNews == checkNewsExistsForDate(newsdb, getTodayDate)
       IN  nreq' = [IdleN EXCEPT !.pc      = IF hasNews THEN "read" ELSE "fetch",
                                 !.params  = params,
                                 !.today   = getTodayDate,
                                 !.hasNews = hasNews]
    /\ UNCHANGED <<now, domain, faults, currency_rates, commodity_prices, qreq,
                   latest, newsdb, nextEntityId, held, lastSave, news_daily_cache>>

\* const hasNews = await checkNewsExistsForDate(today)
checkAndGetNews(params) ==
    /\ nreq.pc = "idle"
    /\ LET hasNews == checkNewsExistsForDate(newsdb, getTodayDate)
       IN  nreq' = [IdleN EXCEPT !.pc      = IF hasNews THEN "read" ELSE "fetch",
                                 !.params  = params,
                                 !.today   = getTodayDate,
                                 !.hasNews = hasNews]
    /\ UNCHANGED <<now, domain, faults, currency_rates, commodity_prices, qreq,
                   latest, newsdb, nextEntityId, held, lastSave, news_daily_cache>>

\* getNewsWithPagination: const hasNews = await checkNewsExistsForDate(today),
\* then the branch on !hasNews || filters
getNewsWithPagination(params) ==
    /\ nreq.pc = "idle"
    /\ LET hasNews == checkNewsExistsForDate(newsdb, getTodayDate)
       IN  nreq' = [IdleN EXCEPT !.pc      = IF ~hasNews \/ BypassCache(params)
                                            THEN "fetch" ELSE "read",
                                 !.fn      = "getNewsWithPagination",
                                 !.params  = params,
                                 !.today   = getTodayDate,
                                 !.hasNews = hasNews]
    /\ UNCHANGED <<now, domain, faults, currency_rates, commodity_prices, qreq,
                   latest, newsdb, nextEntityId, held, lastSave, news_daily_cache>>

\* getHeadlineNewsForToday: const today = getTodayDate(), and the existence
\* check is awaited
getHeadlineNewsForToday ==
    /\ nreq.pc = "idle"
    /\ nreq' = [IdleN EXCEPT !.pc = "check", !.fn = "getHeadlineNewsForToday",
                             !.headlinesDate = getTodayDate]
    /\ UNCHANGED <<now, domain, faults, currency_rates, commodity_prices, qreq,
                   latest, newsdb, nextEntityId, held, lastSave, news_daily_cache>>

\* if (!hasNews) await checkAndGetNews(): the call takes its own
\* getTodayDate() and makes its own existence check
EnsureNews(q, db) ==
    [q EXCEPT !.today = getTodayDate,
              !.pc    = IF checkNewsExistsForDate(db, getTodayDate)
                        THEN "read" ELSE "fetch"]

\* the existence check of getHeadlineNewsForToday resolves
HeadlinesExistenceCheck ==
    /\ nreq.pc = "check"
    /\ LET hasNews == checkNewsExistsForDate(newsdb, nreq.headlinesDate)
           q       == [nreq EXCEPT !.hasNews = hasNews]
       IN  nreq' = IF hasNews THEN [q EXCEPT !.pc = "headlines"]
                   ELSE EnsureNews(q, newsdb)
    /\ UNCHANGED <<now, domain, faults, currency_rates, commodity_prices, qreq,
                   latest, newsdb, nextEntityId, held, lastSave, news_daily_cache>>

\* return await getHeadlineNews(today)
ReadHeadlines ==
    /\ nreq.pc = "headlines"
    /\ nreq' = [nreq EXCEPT !.pc = "done",
                            !.result = getHeadlineNews(newsdb, news_daily_cache,
                                                       nreq.headlinesDate)]
    /\ UNCHANGED <<now, domain, faults, currency_rates, commodity_prices, qreq,
                   latest, newsdb, nextEntityId, held, lastSave, news_daily_cache>>

\* an error leaves the orchestrator
Throw(q, message) == [q EXCEPT !.pc = "failed", !.error = Str(message)]

\* the message of the error a rejected pool.execute carries
StoreErrors == {"connect ECONNREFUSED"}

\* const hasNews = await checkNewsExistsForDate(today) rejects in fn: no
\* catch stands between the await and the route
checkNewsExistsForDateThrows(fn, params) ==
    /\ nreq.pc = "idle"
    /\ faults < MaxFaults
    /\ faults' = faults + 1
    /\ \E message \in StoreErrors :
          nreq' = Throw([IdleN EXCEPT !.fn = fn, !.params = params,
                                      !.today = getTodayDate], message)
    /\ UNCHANGED <<now, domain, currency_rates, commodity_prices, qreq,
                   latest, newsdb, nextEntityId, held, lastSave, news_daily_cache>>

\* await getNewsByDate(today) rejects
getNewsByDateThrows ==
    /\ nreq.pc = "read"
    /\ faults < MaxFaults
    /\ faults' = faults + 1
    /\ \E message \in StoreErrors : nreq' = Throw(nreq, message)
    /\ UNCHANGED <<now, domain, currency_rates, commodity_prices, qreq,
                   latest, newsdb, nextEntityId, held, lastSave, news_daily_cache>>

\* let news = await getNewsByDate(today), then the filter test; in
\* getNewsWithPagination, const allNews = await getNewsByDate(today)
ReadCachedNews ==
    /\ nreq.pc = "read"
    /\ LET news == getNewsByDate(newsdb, nreq.today)
       IN  nreq' = IF BypassCache(nreq.params)
                   THEN [nreq EXCEPT !.pc = "fetch", !.news = news]
                   ELSE Return([nreq EXCEPT !.news = news], news)
    /\ UNCHANGED <<now, domain, faults, currency_rates, commodity_prices, qreq,
                   latest, newsdb, nextEntityId, held, lastSave, news_daily_cache>>

(***************************************************************************)
(* getNewsByDate query by query: every pool.execute is a statement of its  *)
(* own, outside any transaction, and sees what is committed when it runs.  *)
(***************************************************************************)
\* SELECT ... FROM news_articles WHERE DATE(published_at) = ? ORDER BY
\* published_at DESC
SelectArticles ==
    /\ nreq.pc = "read"
    /\ LET rows == OrderByPublishedAtDesc(
                       {row \in newsdb.news_articles :
                           row.published_at.date = nreq.today})
       IN  nreq' = IF rows = <<>>
                   THEN Return([nreq EXCEPT !.news = <<>>], <<>>)
                   ELSE [nreq EXCEPT !.pc = "categories", !.rows = rows, !.i = 1,
                                     !.news = <<>>]
    /\ UNCHANGED <<now, domain, faults, currency_rates, commodity_prices, qreq,
                   latest, newsdb, nextEntityId, held, lastSave, news_daily_cache>>

\* the article object of rows[i], then SELECT category FROM news_categories
SelectCategories ==
    /\ nreq.pc = "categories"
    /\ nreq' = [nreq EXCEPT
                   !.pc = "entities",
                   !.partial = [ArticleWithRelations(newsdb, nreq.rows[nreq.i])
                                    EXCEPT !.entities = Undefined,
                                           !.similar = Undefined]]
    /\ UNCHANGED <<now, domain, faults, currency_rates, commodity_prices, qreq,
                   latest, newsdb, nextEntityId, held, lastSave, news_daily_cache>>

\* SELECT id, symbol, ... FROM news_entities WHERE news_uuid = ?
SelectEntities ==
    /\ nreq.pc = "entities"
    /\ LET rows == {x \in newsdb.news_entities :
                       x.news_uuid = nreq.rows[nreq.i].uuid}
           ids  == Ascending({x.id : x \in rows})
       IN  nreq' = [nreq EXCEPT
                       !.pc = IF rows = {} THEN "similar" ELSE "highlights",
                       !.entityRows =
                           [k \in 1..Len(ids) |-> CHOOSE x \in rows : x.id = ids[k]],
                       !.j = 1,
                       !.partial = [nreq.partial EXCEPT !.entities = List(<<>>)]]
    /\ UNCHANGED <<now, domain, faults, currency_rates, commodity_prices, qreq,
                   latest, newsdb, nextEntityId, held, lastSave, news_daily_cache>>

\* SELECT highlight, ... FROM news_entity_highlights WHERE entity_id = ?
\* for the next entity row
SelectHighlights ==
    /\ nreq.pc = "highlights"
    /\ LET entity == EntityWithHighlights(newsdb, nreq.entityRows[nreq.j])
       IN  nreq' = [nreq EXCEPT
                       !.pc = IF nreq.j = Len(nreq.entityRows)
                              THEN "similar" ELSE "highlights",
                       !.j = nreq.j + 1,
                       !.partial =
                           [nreq.partial EXCEPT
                               !.entities = List(Append(nreq.partial.entities.list,
                                                        entity))]]
    /\ UNCHANGED <<now, domain, faults, currency_rates, commodity_prices, qreq,
                   latest, newsdb, nextEntityId, held, lastSave, news_daily_cache>>

\* SELECT similar_uuid, ... FROM news_similar WHERE news_uuid = ?, then
\* articles.push(article); after the last row the list is returned
SelectSimilar ==
    /\ nreq.pc = "similar"
    /\ LET article ==
               [nreq.partial EXCEPT
                   !.similar = ArticleWithRelations(newsdb, nreq.rows[nreq.i]).similar]
           news == Append(nreq.news, article)
           q    == [nreq EXCEPT !.news = news, !.partial = Null,
                                !.entityRows = <<>>, !.j = 1]
       IN  nreq' = IF nreq.i = Len(nreq.rows)
                   THEN Return([q EXCEPT !.rows = <<>>, !.i = 1], news)
                   ELSE [q EXCEPT !.pc = "categories", !.i = nreq.i + 1]
    /\ UNCHANGED <<now, domain, faults, currency_rates, commodity_prices, qreq,
                   latest, newsdb, nextEntityId, held, lastSave, news_daily_cache>>

\* an emptiness test that looks for an absent data field only
NoArticles_absentOnly(data) == data = Undefined

\* !apiResponse.data || apiResponse.data.length === 0
NoArticles(data) == data = Undefined \/ Len(data.list) = 0

\* fetchAndSaveNews: await fetchNewsFromAPI(...) resolves
fetchNewsFromAPI(responses) ==
    /\ nreq.pc = "fetch"
    /\ \E feed \in responses :
       \E resp \in {ProviderData(feed, Query(nreq.params))} :
          /\ FitsResponse(resp)
          /\ nreq' =
                IF NoArticles(resp)
                THEN Return([nreq EXCEPT !.calls = @ + 1, !.feed = feed], <<>>)
                ELSE [nreq EXCEPT !.pc = "save", !.calls = @ + 1, !.feed = feed,
                                  !.data = resp.list, !.i = 1]
    /\ UNCHANGED <<now, domain, faults, currency_rates, commodity_prices, qreq,
                   latest, newsdb, nextEntityId, held, lastSave, news_daily_cache>>

\* messages of the errors fetchNewsFromAPI throws
ProviderErrors ==
    {"Marketaux API key is not configured", "Rate limit exceeded. Please try again later."}

\* an outer catch that swallows the error and returns no articles
Rethrow_swallow(q, message) == [q EXCEPT !.pc = "done", !.result = <<>>]

\* catch (error) { console.error(...); throw error; }
Rethrow(q, message) == Throw(q, message)

\* the bodies the news provider may send for a query: an error object, a
\* meta block and the data of a feed, each present or not
NewsBodies(feeds, query) ==
    { [ error |-> e, meta |-> m, data |-> ProviderData(feed, query) ] :
         e \in {Undefined, [code |-> "rate_limit_reached", message |-> "Too many requests"]},
         m \in BOOLEAN,
         feed \in feeds \cup {Undefined} }

\* what await fetch(url) resolves to
NewsResponses(feeds, query) ==
    {[ok |-> FALSE, body |-> Undefined]}
        \cup {[ok |-> TRUE, body |-> b] : b \in NewsBodies(feeds, query)}

\* fetchNewsFromAPI of the Marketaux client: the key test, the request,
\* response.ok, data.error, then !data.meta && !data.data
MarketauxClient(key, response) ==
    IF ~Truthy(key) THEN Threw("Marketaux API key is not configured", 0)
    ELSE IF ~response.ok THEN Threw("Rate limit exceeded. Please try again later.", 1)
    ELSE IF response.body.error # Undefined THEN Threw("Marketaux API error", 1)
    ELSE IF ~response.body.meta /\ response.body.data = Undefined
    THEN Threw("Invalid API response format", 1)
    ELSE Returned(response.body)

\* fetchAndSaveNews: const apiResponse = await fetchNewsFromAPI(...), with
\* the client spelled out; it throws into the rethrowing catch or returns
\* the body whose data the cycle saves
CallNewsProvider(feeds) ==
    /\ nreq.pc = "fetch"
    /\ \E key \in ApiKeys :
       \E response \in (IF Truthy(key) THEN NewsResponses(feeds, Query(nreq.params))
                        ELSE {Null}) :
       \E out \in {MarketauxClient(key, response)} :
       \E q \in {[nreq EXCEPT !.calls = @ + 1, !.env = key, !.response = response,
                              !.fetches = @ + out.fetched]} :
          /\ (out.threw /\ Truthy(key)) => faults < MaxFaults
          /\ faults' = IF out.threw /\ Truthy(key) THEN faults + 1 ELSE faults
          /\ ~out.threw => FitsResponse(out.value.data)
          /\ nreq' =
                IF out.threw THEN Rethrow(q, out.message)
                ELSE IF NoArticles(out.value.data) THEN Return(q, <<>>)
                ELSE [q EXCEPT !.pc = "save", !.data = out.value.data.list, !.i = 1]
    /\ UNCHANGED <<now, domain, currency_rates, commodity_prices, qreq,
                   latest, newsdb, nextEntityId, held, lastSave, news_daily_cache>>

\* fetchAndSaveNews: await fetchNewsFromAPI(...) rejects; the outer catch
\* rethrows
NewsProviderThrows ==
    /\ nreq.pc = "fetch"
    /\ faults < MaxFaults
    /\ faults' = faults + 1
    /\ \E message \in ProviderErrors :
          nreq' = Rethrow([nreq EXCEPT !.calls = @ + 1], message)
    /\ UNCHANGED <<now, domain, currency_rates, commodity_prices, qreq,
                   latest, newsdb, nextEntityId, held, lastSave, news_daily_cache>>

\* the object pushed to savedArticles
SavedArticle(article) ==
    [ uuid         |-> article.uuid,
      title        |-> article.title,
      description  |-> article.description,
      snippet      |-> article.snippet,
      url          |-> article.url,
      image_url    |-> article.image_url,
      language     |-> article.language,
      published_at |-> article.published_at,
      source       |-> article.source,
      categories   |-> article.categories,
      entities     |-> article.entities,
      similar      |-> article.similar ]

\* a headline rule that admits the thresholds themselves
IsHeadline_nonstrict(article) ==
    /\ NonEmptyList(article.entities)
    /\ \/ \E e \in Range(article.entities.list) : Abs(e.sentiment_score.num) >= 300
       \/ \E e \in Range(article.entities.list) : e.match_score.num >= 20000

\* some entity has |sentiment_score| > 0.3 or match_score > 20
IsHeadline(article) ==
    /\ NonEmptyList(article.entities)
    /\ \/ \E e \in Range(article.entities.list) : Abs(e.sentiment_score.num) > 300
       \/ \E e \in Range(article.entities.list) : e.match_score.num > 20000

\* a catch block that gives up the rest of the batch
ArticleFailed_abort(q) == [q EXCEPT !.i = Len(q.data)]

\* catch (error): log, and go on with the next article
ArticleFailed(q) == q

\* the try block after the save resolved
ArticleSaved(q, article) ==
    [q EXCEPT !.savedArticles = Append(@, SavedArticle(article)),
              !.okIdx         = @ \cup {q.i},
              !.headlineUuids = IF IsHeadline(article)
                                THEN Append(@, article.uuid) ELSE @,
              !.headlineIdx   = IF IsHeadline(article)
                                THEN Append(@, q.i) ELSE @]

\* the loop moves on; after the last article, the headline step or the return
NextArticle(q) ==
    IF q.i < Len(q.data) THEN [q EXCEPT !.i = @ + 1]
    ELSE IF Len(q.headlineUuids) > 0 THEN [q EXCEPT !.pc = "mark"]
    ELSE Return(q, q.savedArticles)

\* one iteration of the loop over apiResponse.data
SaveArticleStep(fail) ==
    /\ nreq.pc = "save"
    /\ LET article == nreq.data[nreq.i]
           q       == [nreq EXCEPT !.attempts = Append(@, nreq.i)]
       IN  /\ AwaitSave(article, fail)
           /\ nreq' = NextArticle(IF fail = 0 THEN ArticleSaved(q, article)
                                  ELSE ArticleFailed(q))
    /\ UNCHANGED <<now, domain, currency_rates, commodity_prices, qreq, latest,
                   news_daily_cache>>

\* Math.max(...entities.map(e => Math.abs(e.sentiment_score)))
RECURSIVE MaxAbsSentiment(_)
MaxAbsSentiment(entities) ==
    IF Len(entities) = 1 THEN Abs(Head(entities).sentiment_score.num)
    ELSE LET m == MaxAbsSentiment(Tail(entities))
             h == Abs(Head(entities).sentiment_score.num)
         IN  IF h > m THEN h ELSE m

\* Math.round(maxSentiment * 100) of the first article of data with the uuid
HeadlinePriority(data, uuid) ==
    LET found == {k \in 1..Len(data) : data[k].uuid = uuid}
    IN  IF found = {} THEN 0
        ELSE LET article == data[Ascending(found)[1]]
             IN  IF NonEmptyList(article.entities)
                 THEN (MaxAbsSentiment(article.entities.list) + 5) \div 10
                 ELSE 0

Priorities(q) ==
    [k \in 1..Len(q.headlineUuids) |-> HeadlinePriority(q.data, q.headlineUuids[k])]

\* markHeadlineNews(headlineUuids, date, priorities)
MarkArguments(q) ==
    [newsUuids |-> q.headlineUuids, date |-> q.today, priorities |-> Priorities(q)]

\* await markHeadlineNews(headlineUuids, date, priorities) resolves
MarkHeadlines ==
    /\ nreq.pc = "mark"
    /\ news_daily_cache' =
          markHeadlineNews(news_daily_cache, nreq.headlineUuids, nreq.today,
                           Priorities(nreq))
    /\ nreq' = Return([nreq EXCEPT !.passed = MarkArguments(nreq)],
                       nreq.savedArticles)
    /\ UNCHANGED <<now, domain, faults, currency_rates, commodity_prices, qreq,
                   latest, newsdb, nextEntityId, held, lastSave>>

\* a catch block around markHeadlineNews that throws the error on
MarkFailed_rethrow(q) == Throw(q, "Failed to mark headline news")

\* catch (error) { console.error('Failed to mark headline news:', error) }:
\* the cycle goes on to its return
MarkFailed(q) == Return(q, q.savedArticles)

\* await markHeadlineNews(...) rejects: caught and logged
MarkHeadlinesThrows ==
    /\ nreq.pc = "mark"
    /\ faults < MaxFaults
    /\ faults' = faults + 1
    /\ nreq' = MarkFailed([nreq EXCEPT !.passed = MarkArguments(nreq),
                                       !.markFailed = TRUE])
    /\ UNCHANGED <<now, domain, currency_rates, commodity_prices, qreq, latest,
                   newsdb, nextEntityId, held, lastSave, news_daily_cache>>

\* the answer of the /news route: the articles (with the meta block of a
\* paginated request), or status 500 with the message of the error
NewsResponse(q) ==
    IF q.pc = "failed" THEN Reply500(q.error.str)
    ELSE IF q.fn = "getNewsWithPagination"
    THEN [ status |-> 200,
           body   |-> [ success |-> TRUE, data |-> q.result,
                        meta    |-> [ total      |-> q.meta.total,
                                      page       |-> q.meta.page,
                                      limit      |-> q.meta.limit,
                                      totalPages |-> (q.meta.total + q.meta.limit - 1)
                                                        \div q.meta.limit ] ] ]
    ELSE Reply200(q.result)

\* the route answers and the invocation is over
RespondNews ==
    /\ nreq.pc \in {"done", "failed"}
    /\ nreq' = IdleN
    /\ UNCHANGED <<now, domain, faults, currency_rates, commodity_prices, qreq,
                   latest, newsdb, nextEntityId, held, lastSave, news_daily_cache>>

(***************************************************************************)
(* Environment: the wall clock and the market.                             *)
(***************************************************************************)
Midnight ==
    /\ now < MaxDay
    /\ now' = now + 1
    /\ UNCHANGED <<domain, faults, currency_rates, commodity_prices, qreq, latest, newsVars>>

Init ==
    /\ now = 1
    /\ domain = "none"
    /\ faults = 0
    /\ currency_rates = {}
    /\ commodity_prices = {}
    /\ qreq = [r \in QReq |-> IdleQ]
    /\ latest = [currency |-> {}, commodity |-> {}]
    /\ newsdb = EmptyNewsDb
    /\ nextEntityId = 1
    /\ held = 0
    /\ lastSave = NoSave
    /\ news_daily_cache = {}
    /\ nreq = IdleN

\* one quotes request at a time; the clock runs and calls and saves may fail
NextQuotes ==
    \/ Midnight
    \/ checkAndGetCurrencyRates("q1")
    \/ checkAndGetCommodityPrices("q1")
    \/ fetchCurrencyRateFromAPI("q1")
    \/ fetchStockQuoteFromAPI("q1")
    \/ ProviderThrows("q1")
    \/ SaveCurrencyStep("q1")
    \/ SaveCommodityStep("q1")
    \/ SaveThrows("q1")
    \/ PacingDelay("q1")
    \/ RespondQuotes("q1")

SpecQuotes == Init /\ [][NextQuotes]_vars

\* one quotes request at a time on one day, with a provider and a store
\* that may fail any number of times
NextOutage ==
    \/ checkAndGetCurrencyRates("q1")
    \/ checkAndGetCommodityPrices("q1")
    \/ fetchCurrencyRateFromAPI("q1")
    \/ fetchStockQuoteFromAPI("q1")
    \/ ProviderOutage("q1")
    \/ SaveCurrencyStep("q1")
    \/ SaveCommodityStep("q1")
    \/ StoreOutage("q1")
    \/ PacingDelay("q1")
    \/ RespondQuotes("q1")

SpecOutage == Init /\ [][NextOutage]_vars

\* two quotes requests of one day interleave at every await
NextRace ==
    \/ \E r \in QReq : checkAndGetCurrencyRates(r)
    \/ \E r \in QReq : checkAndGetCommodityPrices(r)
    \/ \E r \in QReq : fetchCurrencyRateFromAPI(r)
    \/ \E r \in QReq : fetchStockQuoteFromAPI(r)
    \/ \E r \in QReq : SaveCurrencyStep(r)
    \/ \E r \in QReq : SaveCommodityStep(r)
    \/ \E r \in QReq : PacingDelay(r)
    \/ \E r \in QReq : RespondQuotes(r)

SpecRace == Init /\ [][NextRace]_vars

\* callers save articles one after the other; any statement may reject
NextSave ==
    \/ \E article \in Articles :
          saveNewsArticleWithRelations(article, 0)
    \/ \E article \in Articles : \E fail \in FailPoints(article) :
          saveNewsArticleWithRelations(article, fail)

SpecSave == Init /\ [][NextSave]_vars

\* news requests one after the other; the clock runs, the provider call, a
\* statement of a save and the headline marking may fail
NextNews ==
    \/ \E params \in NewsParams : checkAndGetNews(params)
    \/ ReadCachedNews
    \/ fetchNewsFromAPI(ProviderResponses)
    \/ NewsProviderThrows
    \/ SaveArticleStep(0)
    \/ /\ nreq.pc = "save"
       /\ \E fail \in FailPoints(nreq.data[nreq.i]) : SaveArticleStep(fail)
    \/ MarkHeadlines
    \/ MarkHeadlinesThrows
    \/ RespondNews
    \/ Midnight

SpecNews == Init /\ [][NextNews]_vars

\* unfiltered news and headline requests, served responses on either side
\* of the headline rule
NextHeadlines ==
    \/ checkAndGetNews(NoParams)
    \/ getHeadlineNewsForToday
    \/ HeadlinesExistenceCheck
    \/ ReadHeadlines
    \/ Midnight
    \/ ReadCachedNews
    \/ fetchNewsFromAPI(HeadlineResponses)
    \/ SaveArticleStep(0)
    \/ /\ nreq.pc = "save"
       /\ \E fail \in FailPoints(nreq.data[nreq.i]) : SaveArticleStep(fail)
    \/ MarkHeadlines
    \/ MarkHeadlinesThrows
    \/ RespondNews

SpecHeadlines == Init /\ [][NextHeadlines]_vars

\* paginated news requests, with a provider that holds three articles
NextPages ==
    \/ \E params \in PageParams : getNewsWithPagination(params)
    \/ ReadCachedNews
    \/ fetchNewsFromAPI(PageFeeds)
    \/ SaveArticleStep(0)
    \/ RespondNews
    \/ Midnight

SpecPages == Init /\ [][NextPages]_vars

\* news requests, plain and paginated, with a provider and a store whose
\* reads may fail
NextErrors ==
    \/ \E params \in NewsParams : checkAndGetNews(params)
    \/ \E params \in PageParams : getNewsWithPagination(params)
    \/ \E params \in NewsParams :
          checkNewsExistsForDateThrows("checkAndGetNews", params)
    \/ \E params \in PageParams :
          checkNewsExistsForDateThrows("getNewsWithPagination", params)
    \/ ReadCachedNews
    \/ getNewsByDateThrows
    \/ fetchNewsFromAPI(PageFeeds)
    \/ NewsProviderThrows
    \/ SaveArticleStep(0)
    \/ RespondNews
    \/ Midnight

SpecErrors == Init /\ [][NextErrors]_vars

\* the three routes at once: a quotes request and a news request in flight
\* together while the clock runs
ServiceFeeds == {List(<<N1>>)}

NextService ==
    \/ Midnight
    \/ checkAndGetCurrencyRates("q1")
    \/ checkAndGetCommodityPrices("q1")
    \/ fetchCurrencyRateFromAPI("q1")
    \/ fetchStockQuoteFromAPI("q1")
    \/ SaveCurrencyStep("q1")
    \/ SaveCommodityStep("q1")
    \/ PacingDelay("q1")
    \/ RespondQuotes("q1")
    \/ checkAndGetNews(NoParams)
    \/ ReadCachedNews
    \/ fetchNewsFromAPI(ServiceFeeds)
    \/ SaveArticleStep(0)
    \/ MarkHeadlines
    \/ RespondNews

SpecService == Init /\ [][NextService]_vars

\* no news request, no quotes request is in flight
NoNewsRequest == nreq.pc = "idle"

NoQuotesRequest == \A r \in QReq : qreq[r].pc = "idle"

\* requests to the three routes, one after the other, on one day, with the
\* provider clients spelled out: a key that is set or not and every kind of
\* response
NextClients ==
    \/ NoNewsRequest /\ checkAndGetCurrencyRates("q1")
    \/ NoNewsRequest /\ checkAndGetCommodityPrices("q1")
    \/ CallQuotesProvider("q1")
    \/ SaveCurrencyStep("q1")
    \/ SaveCommodityStep("q1")
    \/ PacingDelay("q1")
    \/ RespondQuotes("q1")
    \/ NoQuotesRequest /\ checkAndGetNews(NoParams)
    \/ ReadCachedNews
    \/ CallNewsProvider(ServiceFeeds)
    \/ SaveArticleStep(0)
    \/ MarkHeadlines
    \/ RespondNews

SpecClients == Init /\ [][NextClients]_vars

\* pool.getConnection() rejects, or connection.commit() rejects
FirstAndLast(article) == {1, Len(Statements(article))}

\* requests to the three routes, one after the other, on one day; the
\* first store read of every route, the provider calls and upserts of a
\* batch, and the provider call, the saves and the headline marking of a
\* news cycle may fail
NextAnswers ==
    \/ NoNewsRequest /\ checkAndGetCurrencyRates("q1")
    \/ NoNewsRequest /\ checkAndGetCommodityPrices("q1")
    \/ NoNewsRequest /\ getCurrencyRatesByDateThrows("q1")
    \/ NoNewsRequest /\ getCommodityPricesByDateThrows("q1")
    \/ fetchCurrencyRateFromAPI("q1")
    \/ fetchStockQuoteFromAPI("q1")
    \/ ProviderThrows("q1")
    \/ SaveCurrencyStep("q1")
    \/ SaveCommodityStep("q1")
    \/ SaveThrows("q1")
    \/ PacingDelay("q1")
    \/ RespondQuotes("q1")
    \/ NoQuotesRequest /\ checkAndGetNews(NoParams)
    \/ NoQuotesRequest /\ checkNewsExistsForDateThrows("checkAndGetNews", NoParams)
    \/ NoQuotesRequest /\ getHeadlineNewsForToday
    \/ HeadlinesExistenceCheck
    \/ ReadHeadlines
    \/ ReadCachedNews
    \/ getNewsByDateThrows
    \/ fetchNewsFromAPI(ServiceFeeds)
    \/ NewsProviderThrows
    \/ SaveArticleStep(0)
    \/ /\ nreq.pc = "save"
       /\ \E fail \in FirstAndLast(nreq.data[nreq.i]) : SaveArticleStep(fail)
    \/ MarkHeadlines
    \/ MarkHeadlinesThrows
    \/ RespondNews

\* every await that does not reject resolves, and the route then answers:
\* the request in flight takes its next step
Resolves ==
    \/ fetchCurrencyRateFromAPI("q1")
    \/ fetchStockQuoteFromAPI("q1")
    \/ SaveCurrencyStep("q1")
    \/ SaveCommodityStep("q1")
    \/ PacingDelay("q1")
    \/ RespondQuotes("q1")
    \/ HeadlinesExistenceCheck
    \/ ReadHeadlines
    \/ ReadCachedNews
    \/ fetchNewsFromAPI(ServiceFeeds)
    \/ SaveArticleStep(0)
    \/ MarkHeadlines
    \/ RespondNews

AwaitsResolve == WF_vars(Resolves)

SpecAnswers == Init /\ [][NextAnswers]_vars /\ AwaitsResolve

\* two /currency-rates requests and a news request of one day interleave at
\* every await
NextWait ==
    \/ \E r \in QReq : checkAndGetCurrencyRates(r)
    \/ \E r \in QReq : fetchCurrencyRateFromAPI(r)
    \/ \E r \in QReq : SaveCurrencyStep(r)
    \/ \E r \in QReq : PacingDelay(r)
    \/ \E r \in QReq : RespondQuotes(r)
    \/ checkAndGetNews(NoParams)
    \/ ReadCachedNews
    \/ fetchNewsFromAPI(ServiceFeeds)
    \/ SaveArticleStep(0)
    \/ MarkHeadlines
    \/ RespondNews

SpecWait == Init /\ [][NextWait]_vars

\* a provider response of two articles
TwoArticles == {List(<<N1, N2>>)}

\* the quotes orchestrators and the news orchestrator share no table: a run
\* exercises the quotes routes or the news route
NoNewsStored == newsdb.news_articles = {}

NoQuotesYet == domain = "none"

\* requests one after the other, with every failure of NextAnswers and a
\* news provider that returns two articles
NextBounded ==
    \/ NoNewsStored /\ NoNewsRequest /\ checkAndGetCurrencyRates("q1")
    \/ NoNewsStored /\ NoNewsRequest /\ checkAndGetCommodityPrices("q1")
    \/ NoNewsStored /\ NoNewsRequest /\ getCurrencyRatesByDateThrows("q1")
    \/ NoNewsStored /\ NoNewsRequest /\ getCommodityPricesByDateThrows("q1")
    \/ fetchCurrencyRateFromAPI("q1")
    \/ fetchStockQuoteFromAPI("q1")
    \/ ProviderThrows("q1")
    \/ SaveCurrencyStep("q1")
    \/ SaveCommodityStep("q1")
    \/ SaveThrows("q1")
    \/ PacingDelay("q1")
    \/ RespondQuotes("q1")
    \/ NoQuotesYet /\ NoQuotesRequest /\ checkAndGetNews(NoParams)
    \/ NoQuotesYet /\ NoQuotesRequest /\ checkNewsExistsForDateThrows("checkAndGetNews", NoParams)
    \/ NoQuotesYet /\ NoQuotesRequest /\ getHeadlineNewsForToday
    \/ HeadlinesExistenceCheck
    \/ ReadHeadlines
    \/ ReadCachedNews
    \/ getNewsByDateThrows
    \/ fetchNewsFromAPI(TwoArticles)
    \/ NewsProviderThrows
    \/ SaveArticleStep(0)
    \/ /\ nreq.pc = "save"
       /\ \E fail \in FirstAndLast(nreq.data[nreq.i]) : SaveArticleStep(fail)
    \/ MarkHeadlines
    \/ MarkHeadlinesThrows
    \/ RespondNews

\* every await that does not reject resolves
ResolvesBounded ==
    \/ fetchCurrencyRateFromAPI("q1")
    \/ fetchStockQuoteFromAPI("q1")
    \/ SaveCurrencyStep("q1")
    \/ SaveCommodityStep("q1")
    \/ PacingDelay("q1")
    \/ HeadlinesExistenceCheck
    \/ ReadHeadlines
    \/ ReadCachedNews
    \/ fetchNewsFromAPI(TwoArticles)
    \/ SaveArticleStep(0)
    \/ MarkHeadlines

SpecBounded == Init /\ [][NextBounded]_vars /\ WF_vars(ResolvesBounded)

\* two /currency-rates requests of one day interleave at every await, and
\* provider calls and upserts may fail
NextOverlap ==
    \/ \E r \in QReq : checkAndGetCurrencyRates(r)
    \/ \E r \in QReq : fetchCurrencyRateFromAPI(r)
    \/ \E r \in QReq : ProviderThrows(r)
    \/ \E r \in QReq : SaveCurrencyStep(r)
    \/ \E r \in QReq : SaveThrows(r)
    \/ \E r \in QReq : PacingDelay(r)
    \/ \E r \in QReq : RespondQuotes(r)

SpecOverlap == Init /\ [][NextOverlap]_vars

\* versions of article a published on day 1, each with categories, entities
\* and a similar reference
ReadVersions ==
    { Article("a", Iso(1, 1, 0), c, e, List(<<S1>>)) :
        c \in CategoryLists \ {Undefined}, e \in EntityLists \ {List(<<>>)} }

\* a news request reads the articles of today query by query while the
\* fetch cycles of other requests commit saves of the same article
NextReads ==
    \/ \E article \in ReadVersions : saveNewsArticleWithRelations(article, 0)
    \/ checkAndGetNews(NoParams)
    \/ fetchNewsFromAPI({List(<<>>)})
    \/ SelectArticles
    \/ SelectCategories
    \/ SelectEntities
    \/ SelectHighlights
    \/ SelectSimilar
    \/ RespondNews

SpecReads == Init /\ [][NextReads]_vars

\* unfiltered news requests one after the other over two days, with a
\* provider that republishes an article, and a marking that may fail
NextMarks ==
    \/ Midnight
    \/ checkAndGetNews(NoParams)
    \/ ReadCachedNews
    \/ fetchNewsFromAPI(MarkFeeds)
    \/ SaveArticleStep(0)
    \/ MarkHeadlines
    \/ MarkHeadlinesThrows
    \/ RespondNews

SpecMarks == Init /\ [][NextMarks]_vars

Next == NextBounded \/ NextMarks \/ NextReads \/ NextOverlap \/ NextService \/ NextWait \/ NextAnswers \/ NextClients \/ NextQuotes \/ NextErrors \/ NextOutage \/ NextPages \/ NextRace \/ NextSave \/ NextNews \/ NextHeadlines

Spec == Init /\ [][Next]_vars

(***************************************************************************)
(* Properties of the currency and commodity orchestrators.                 *)
(***************************************************************************)
\* the rows of today's date in the table of a request's domain, as the
\* get...ByDate function of that domain returns them
RowsForToday(q) ==
    IF q.kind = "currency"
    THEN getCurrencyRatesByDate(currency_rates, q.today)
    ELSE getCommodityPricesByDate(commodity_prices, q.today)

\* a request that found rows for today at its first store read
OnHitPath(q) == q.pc # "idle" /\ Len(q.seen) > 0

\* a request that found no row for today at its first store read
OnMissPath(q) == q.pc # "idle" /\ Len(q.seen) = 0

\* C1: cache-hit short-circuit.  A checkAndGetCurrencyRates (resp.
\* checkAndGetCommodityPrices) call that reads at least one row persisted for
\* today returns exactly those rows, issues no provider call and writes
\* nothing to the store.
C1_CacheHitShortCircuit ==
    \A r \in QReq :
        LET q == qreq[r] IN
        OnHitPath(q) =>
            /\ q.pc = "done"
            /\ q.data = q.seen
            /\ q.data = RowsForToday(q)
            /\ q.calls = <<>>
            /\ q.writes = 0

\* a call was answered from rows persisted for today
C1_Witness ==
    \E r \in QReq :
        /\ qreq[r].pc = "done"
        /\ Len(qreq[r].seen) = Len(Tracked(qreq[r].kind))
        /\ qreq[r].data = qreq[r].seen

\* the tracked instrument a result element or a stored row stands for
InstrumentOf(kind, x) ==
    IF kind = "currency" THEN <<x.fromCurrency, x.toCurrency>> ELSE <<x.symbol>>

TrackedKey(kind, k) ==
    IF kind = "currency"
    THEN <<MAIN_CURRENCIES[k].from, MAIN_CURRENCIES[k].to>>
    ELSE <<POPULAR_COMMODITIES[k].symbol>>

\* the result element is persisted under today's date of the batch
Persisted(q, x) ==
    IF q.kind = "currency"
    THEN CurrencyRateRow(x) \in currency_rates /\ x.date = q.today
    ELSE /\ x.date = q.today
         /\ \E row \in commodity_prices :
               /\ row.symbol = x.symbol /\ row.date = q.today
               /\ row.price = x.price /\ row.open_price = x.open
               /\ row.change_amount = x.change

\* C2: partial-failure resilience.  On a cache miss the batch calls the
\* provider for every tracked instrument exactly once, in list order,
\* whatever failed before; the list it returns holds exactly the instruments
\* whose provider call and upsert both succeeded, in list order, each
\* persisted with today's date.
C2_PartialFailureResilience ==
    \A r \in QReq :
        LET q == qreq[r]
            n == Len(Tracked(q.kind))
        IN  OnMissPath(q) =>
            /\ \A k \in 1..Len(q.calls) : q.calls[k] = k
            /\ Len(q.calls) = (IF q.pc = "call" THEN q.i - 1 ELSE q.i)
            /\ q.pc = "done" => (Len(q.calls) = n /\ q.data = q.results)
            /\ Len(q.results) = Cardinality(q.okIdx)
            /\ \A k \in 1..Len(q.results) :
                  /\ InstrumentOf(q.kind, q.results[k])
                        = TrackedKey(q.kind, Ascending(q.okIdx)[k])
                  /\ Persisted(q, q.results[k])

\* a commodity batch finished although the call or the save of an instrument
\* in the middle of the list failed, and returned instruments on both sides
C2_Witness ==
    \E r \in QReq :
        LET q == qreq[r] IN
        /\ q.kind = "commodity" /\ q.pc = "done" /\ Len(q.seen) = 0
        /\ 2 \notin q.okIdx
        /\ {1, 3, 4} \subseteq q.okIdx
        /\ Len(q.calls) = Len(POPULAR_COMMODITIES)

\* C3: pacing.  Within one batch no provider call follows the previous one
\* without the 12-second delay in between, whether the previous attempt
\* succeeded or failed.
C3_PacedAfterEveryAttempt ==
    \A r \in QReq : ~qreq[r].unpaced

(***************************************************************************)
(* Properties of the news store.                                           *)
(***************************************************************************)
\* the relation rows a store holds for a uuid; an entity is viewed with its
\* highlights and without the surrogate id
PersistedCategories(db, uuid) ==
    {row \in db.news_categories : row.news_uuid = uuid}

PersistedEntities(db, uuid) ==
    { [ entity     |-> [e EXCEPT !.id = 0],
        highlights |-> { [h EXCEPT !.entity_id = 0] :
                           h \in {x \in db.news_entity_highlights :
                                     x.entity_id = e.id} } ] :
        e \in {x \in db.news_entities : x.news_uuid = uuid} }

PersistedSimilar(db, uuid) ==
    {row \in db.news_similar : row.news_uuid = uuid}

\* the relation rows an article carries
CarriedCategories(article) ==
    IF article.categories = Undefined THEN {} ELSE CategoryRows(article)

CarriedEntities(article) ==
    IF article.entities = Undefined THEN {}
    ELSE { [ entity     |-> EntityRow(article, article.entities.list[k], 0),
             highlights |->
                 IF NonEmptyList(article.entities.list[k].highlights)
                 THEN HighlightRows(article.entities.list[k], 0) ELSE {} ] :
             k \in 1..Len(article.entities.list) }

CarriedSimilar(article) ==
    IF article.similar = Undefined THEN {} ELSE SimilarRows(article)

\* the article row and every relation row the article carries are persisted
CommittedTogether(db, article) ==
    /\ ArticleRow(article) \in db.news_articles
    /\ CarriedCategories(article) \subseteq PersistedCategories(db, article.uuid)
    /\ CarriedEntities(article) \subseteq PersistedEntities(db, article.uuid)
    /\ CarriedSimilar(article) \subseteq PersistedSimilar(db, article.uuid)

\* C4: atomic news save.  A saveNewsArticleWithRelations call in which a
\* statement rejects fails and leaves the article row, the categories, the
\* entities, the highlights and the similar rows as they were before the
\* call; a call that succeeds has persisted the article row and all the
\* relation rows the article carries.
C4_AtomicSave ==
    /\ [][(lastSave'.outcome = "failed" /\ faults' # faults) => newsdb' = newsdb]_vars
    /\ [](lastSave.outcome = "committed" =>
              CommittedTogether(newsdb, lastSave.article))

\* the highlight insert of an entity rejected, after the entity row was
\* inserted, in a call for an article that already had entities persisted
C4_Witness ==
    /\ lastSave.outcome = "failed"
    /\ lastSave.failedAt = "highlightInsert"
    /\ PersistedEntities(newsdb, lastSave.uuid) # {}
    /\ PersistedCategories(newsdb, lastSave.uuid) # {}

\* C5: after every successful saveNewsArticleWithRelations(a) the persisted
\* categories, entities with highlights and similar references of a.uuid are
\* exactly those a carries, also when a carries an empty or absent list and
\* an earlier version carried a non-empty one.
C5_RelationsReflectLastSave ==
    lastSave.outcome = "committed" =>
        /\ PersistedCategories(newsdb, lastSave.uuid)
              = CarriedCategories(lastSave.article)
        /\ PersistedEntities(newsdb, lastSave.uuid)
              = CarriedEntities(lastSave.article)
        /\ PersistedSimilar(newsdb, lastSave.uuid)
              = CarriedSimilar(lastSave.article)

\* C6: relation replacement.  A successful save of an article with a
\* non-empty set of categories leaves exactly these categories for the uuid,
\* however many an earlier save of the uuid left, and exactly one article row.
C6_RelationReplacement ==
    (lastSave.outcome = "committed" /\ NonEmptyList(lastSave.article.categories)) =>
        /\ PersistedCategories(newsdb, lastSave.uuid)
              = CategoryRows(lastSave.article)
        /\ Cardinality({row \in newsdb.news_articles :
                           ArticleKey(row) = lastSave.uuid}) = 1

\* an article persisted with 3 categories was saved again with 1 category
C6_Witness ==
    /\ lastSave.outcome = "committed"
    /\ lastSave.catsBefore = 3
    /\ NonEmptyList(lastSave.article.categories)
    /\ Len(lastSave.article.categories.list) = 1
    /\ Cardinality(PersistedCategories(newsdb, lastSave.uuid)) = 1

\* C7: connection release.  Every call that acquired a connection released
\* it exactly once, on every exit path, and no connection stays held after
\* any sequence of calls.
C7_ConnectionAlwaysReleased ==
    /\ lastSave.acquired = lastSave.released
    /\ held = 0

(***************************************************************************)
(* Properties of the news orchestrator.                                    *)
(***************************************************************************)
\* the parameters carry a symbols filter or a sentiment bound
CarriesFilter(params) ==
    \/ params.symbols # Undefined
    \/ params.sentiment_gte # Undefined
    \/ params.sentiment_lte # Undefined

\* the articles of the provider response whose save resolved, in the order
\* of the response
CycleResult(q) ==
    LET ok == Ascending(q.okIdx)
    IN  [k \in 1..Len(ok) |-> SavedArticle(q.data[ok[k]])]

C10_PerArticleIsolation ==
    [][ /\ nreq'.pc \in {"save", "mark", "done"} =>
              /\ \A k \in 1..Len(nreq'.attempts) : nreq'.attempts[k] = k
              /\ nreq'.okIdx \subseteq Range(nreq'.attempts)
              /\ nreq'.savedArticles = CycleResult(nreq')
              /\ (nreq'.pc \in {"mark", "done"} /\ nreq'.calls = 1) =>
                    Len(nreq'.attempts) = Len(nreq'.data)
              /\ (nreq'.pc = "done" /\ nreq'.calls = 1) =>
                    nreq'.result = CycleResult(nreq')
        /\ (nreq'.attempts # nreq.attempts /\ nreq'.attempts # <<>>
               /\ Len(nreq'.attempts) \notin nreq'.okIdx) =>
              newsdb' = newsdb ]_vars

\* a cycle over three articles finished although the save of the second one
\* rejected, and returned the first and the third
C10_Witness ==
    /\ nreq.pc = "done"
    /\ Len(nreq.data) = 3
    /\ nreq.okIdx = {1, 3}
    /\ Len(nreq.result) = 2
    /\ nreq.attempts = <<1, 2, 3>>
    /\ ~\E row \in newsdb.news_articles : row.uuid = nreq.data[2].uuid

\* C8: uniqueness and idempotent upsert.  Each table holds at most one row
\* per key, also when two cache-miss batches of one day interleave, and the
\* row of a key carries the values of the latest write to that key.
C8_UniqueKeyLatestWrite ==
    /\ \A a, b \in currency_rates :
          CurrencyRateKey(a) = CurrencyRateKey(b) => a = b
    /\ \A a, b \in commodity_prices :
          CommodityPriceKey(a) = CommodityPriceKey(b) => a = b
    /\ currency_rates = latest.currency
    /\ commodity_prices = latest.commodity

\* two batches of one day, served different quotes, both wrote the first
\* tracked instrument
C8_Witness ==
    /\ qreq["q1"].pc # "idle" /\ qreq["q2"].pc # "idle"
    /\ qreq["q1"].today = qreq["q2"].today
    /\ qreq["q1"].quote # qreq["q2"].quote
    /\ 1 \in qreq["q1"].okIdx /\ 1 \in qreq["q2"].okIdx

\* the headline rule as the specification words it: some entity with
\* |sentimentScore| above 0.3, or some entity with matchScore above 20
Qualifies(article) ==
    /\ article.entities # Undefined
    /\ \E k \in 1..Len(article.entities.list) :
          LET e == article.entities.list[k]
          IN  \/ e.sentiment_score.num > 300
              \/ e.sentiment_score.num < -300
              \/ e.match_score.num > 20000

\* the positions of the response whose save resolved and that qualify
Candidates(q) == {k \in q.okIdx : Qualifies(q.data[k])}

\* C11: headline derivation.  A finished fetch-and-save cycle has passed to
\* markHeadlineNews exactly the articles whose save resolved and that have an
\* entity with |sentiment_score| > 0.3 or match_score > 20, in the order of
\* the response; with no such article it has not called markHeadlineNews.
C11_HeadlineDerivation ==
    (nreq.pc = "done" /\ nreq.calls = 1) =>
        LET cand == Ascending(Candidates(nreq))
        IN  IF cand = <<>> THEN nreq.passed = Null
            ELSE /\ nreq.passed # Null
                 /\ nreq.passed.newsUuids =
                       [j \in 1..Len(cand) |-> nreq.data[cand[j]].uuid]

\* of three articles the first (sentiment -0.5) failed to save, the second
\* sits on both thresholds and the third has a match score of 21: only the
\* third was passed
C11_Witness ==
    /\ nreq.pc = "done"
    /\ nreq.data = <<N1, N5, N6>>
    /\ nreq.okIdx = {2, 3}
    /\ nreq.passed # Null
    /\ nreq.passed.newsUuids = <<"c">>

\* round(100 x the greatest |sentiment_score| of the entities), 0 without
\* entities
PriorityOf(article) ==
    IF ~NonEmptyList(article.entities) THEN 0
    ELSE LET abs == {Abs(article.entities.list[k].sentiment_score.num) :
                        k \in 1..Len(article.entities.list)}
             top == CHOOSE m \in abs : \A n \in abs : n <= m
         IN  (top + 5) \div 10

\* C12: headline priority.  The priorities passed to markHeadlineNews are
\* aligned with the uuids, and the priority of each candidate is computed
\* from the entities of that candidate's own article.
C12_HeadlinePriority ==
    nreq.passed # Null =>
        /\ Len(nreq.passed.priorities) = Len(nreq.passed.newsUuids)
        /\ \A j \in 1..Len(nreq.passed.priorities) :
              nreq.passed.priorities[j] = PriorityOf(nreq.data[nreq.headlineIdx[j]])

\* C13: a headline mark (news_uuid, date) references an article that is
\* persisted under that uuid and whose publish date is the date of the mark.
C13_MarkReferencesArticleOfDate ==
    \A mark \in news_daily_cache :
        \E row \in newsdb.news_articles :
            /\ row.uuid = mark.news_uuid
            /\ row.published_at.date = mark.date

\* the in-memory list a finished getNewsWithPagination call sliced: the
\* articles of its fetch-and-save cycle, or the rows it read for today
SlicedList(q) == IF q.calls = 1 THEN q.savedArticles ELSE q.news

\* the list the same call slices when it asks for page 1: the rows persisted
\* for today, or the saved articles of the provider's answer to the query
\* with page 1 (no save fails in SpecPages)
ListOfPageOne(q) ==
    IF q.calls = 0 THEN getNewsByDate(newsdb, q.today)
    ELSE LET d == ProviderData(q.feed, Query([q.params EXCEPT !.page = Num(1)]))
         IN  [k \in 1..Len(d.list) |-> SavedArticle(d.list[k])]

\* C14: pagination is not pushed down.  Whatever the page, a finished
\* getNewsWithPagination call has sliced the list, and reports the total, that
\* the call for page 1 with the same filters, provider content and store
\* slices and reports.
C14_PaginationNotPushedDown ==
    (nreq.pc = "done" /\ nreq.fn = "getNewsWithPagination") =>
        /\ SlicedList(nreq) = ListOfPageOne(nreq)
        /\ nreq.meta.total = Len(ListOfPageOne(nreq))

\* the elements of L at the 0-based indices [(page-1)*limit, (page-1)*limit
\* + limit) that exist, in the order of L
PageOf(L, page, limit) ==
    LET first == (page - 1) * limit
        n     == IF Len(L) <= first THEN 0
                 ELSE IF Len(L) - first < limit THEN Len(L) - first ELSE limit
    IN  [j \in 1..n |-> L[first + j]]

\* C15: pagination slicing.  A finished getNewsWithPagination(page, limit)
\* call returns the elements of its in-memory list L at the 0-based indices
\* [(page-1)*limit, (page-1)*limit + limit) in the order of L, total = |L|,
\* and echoes page and limit; of 120 articles, page 2 with limit 50 is the
\* articles at the indices 50..99.
C15_PaginationSlicing ==
    /\ Paginate([k \in 1..120 |-> k - 1], 2, 50) = [j \in 1..50 |-> 49 + j]
    /\ (nreq.pc = "done" /\ nreq.fn = "getNewsWithPagination") =>
          /\ nreq.result = PageOf(SlicedList(nreq), nreq.params.page.num,
                                  nreq.params.limit.num)
          /\ nreq.meta = [total |-> Len(SlicedList(nreq)),
                          page  |-> nreq.params.page.num,
                          limit |-> nreq.params.limit.num]

\* three articles are persisted for today; page 2 with limit 2 returned the
\* third alone with total 3
C15_Witness ==
    /\ nreq.pc = "done"
    /\ nreq.fn = "getNewsWithPagination"
    /\ nreq.params.page = Num(2)
    /\ nreq.params.limit = Num(2)
    /\ Len(SlicedList(nreq)) = 3
    /\ nreq.result = <<SlicedList(nreq)[3]>>
    /\ nreq.meta.total = 3

\* a cache-miss batch has ended, by a return or by a throw, and none of its
\* instruments was fetched and saved
EndedWithoutSuccess(q) ==
    /\ q.pc \in {"done", "failed"}
    /\ Len(q.calls) > 0
    /\ q.okIdx = {}

\* C16: a wholly-failed batch returns an empty list instead of raising.  A
\* currency or commodity cache-miss batch in which every provider call or
\* save failed has attempted every tracked instrument and completes normally
\* with an empty list; the route answers success: true with empty data; no
\* failed attempt changes the store.
C16_WhollyFailedBatch ==
    /\ [](\A r \in QReq :
            EndedWithoutSuccess(qreq[r]) =>
                /\ qreq[r].pc = "done"
                /\ qreq[r].calls = [k \in 1..Len(Tracked(qreq[r].kind)) |-> k]
                /\ qreq[r].data = <<>>
                /\ QuotesResponse(qreq[r]) = Reply200(<<>>)
                /\ currency_rates = {} /\ commodity_prices = {})
    /\ [][\A r \in QReq :
            (qreq[r].pc \in {"call", "save"} /\ qreq'[r].okIdx = qreq[r].okIdx) =>
                /\ currency_rates' = currency_rates
                /\ commodity_prices' = commodity_prices]_vars

\* a commodity batch whose eight provider calls or saves all failed has
\* returned
C16_Witness ==
    /\ qreq["q1"].kind = "commodity"
    /\ qreq["q1"].pc = "done"
    /\ Len(qreq["q1"].calls) = 8
    /\ qreq["q1"].okIdx = {}
    /\ qreq["q1"].data = <<>>

\* C17: a headline-marking failure is not fatal.  A fetch-and-save cycle
\* whose markHeadlineNews call rejected returns every article whose save
\* resolved, those articles are persisted, the caller sees no error and the
\* route answers success: true (a plain news request with those articles);
\* the rejected call leaves the news tables as they were.
C17_MarkFailureNonFatal ==
    /\ [](nreq.markFailed =>
            /\ nreq.pc \in {"done", "headlines"}
            /\ nreq.error = Null
            /\ nreq.savedArticles = CycleResult(nreq)
            /\ \A k \in nreq.okIdx :
                  \E row \in newsdb.news_articles : row.uuid = nreq.data[k].uuid
            /\ nreq.fn = "checkAndGetNews" =>
                  /\ nreq.pc = "done"
                  /\ nreq.result = CycleResult(nreq)
                  /\ NewsResponse(nreq) = Reply200(CycleResult(nreq))
            /\ nreq.pc = "done" => NewsResponse(nreq).status = 200)
    /\ [][(nreq'.markFailed /\ ~nreq.markFailed) => newsdb' = newsdb]_vars

\* markHeadlineNews rejected in a cycle over three articles, the first of
\* which failed to save; the cycle returned the other two
C17_Witness ==
    /\ nreq.markFailed
    /\ nreq.pc = "done"
    /\ nreq.fn = "checkAndGetNews"
    /\ Len(nreq.data) = 3
    /\ nreq.okIdx = {2, 3}
    /\ Len(nreq.result) = 2

\* C18: errors propagate to the API.  When the provider call of a news
\* fetch-and-save cycle, the existence check or the read of the rows for
\* today fails, the orchestrator throws that error, the cycle has saved
\* nothing, and the route answers HTTP 500 with {success: false, error:
\* message}.
C18_ErrorPropagation ==
    /\ [][faults' # faults =>
            /\ nreq'.pc = "failed"
            /\ nreq'.error # Null
            /\ nreq'.error.str \in ProviderErrors \cup StoreErrors
            /\ newsdb' = newsdb /\ news_daily_cache' = news_daily_cache]_vars
    /\ [](nreq.pc = "failed" =>
            /\ nreq.attempts = <<>> /\ nreq.savedArticles = <<>>
            /\ NewsResponse(nreq) =
                  [status |-> 500,
                   body   |-> [success |-> FALSE, error |-> nreq.error.str]])

\* news exists for today and the request carries a filter: the provider call
\* of the cycle failed and the request failed with its message
C18_Witness ==
    /\ nreq.pc = "failed"
    /\ nreq.hasNews
    /\ nreq.calls = 1
    /\ nreq.error = Str("Rate limit exceeded. Please try again later.")

\* C19: zero articles.  When the provider answers with an absent or an
\* empty data field, the fetch-and-save cycle returns an empty list at once:
\* it awaits no article save, does not call markHeadlineNews and writes to no
\* table.
C19_ZeroArticles ==
    [][(nreq.pc = "fetch" /\ nreq'.pc # "failed"
            /\ (nreq'.feed = Undefined \/ nreq'.feed = List(<<>>))) =>
          /\ nreq'.pc = "done"
          /\ nreq'.result = <<>>
          /\ nreq'.attempts = <<>>
          /\ nreq'.passed = Null
          /\ newsdb' = newsdb
          /\ news_daily_cache' = news_daily_cache
          /\ nextEntityId' = nextEntityId
          /\ lastSave' = lastSave]_vars

\* a cycle was answered with an empty data field and has returned, with one
\* provider call made
C19_Witness ==
    /\ nreq.pc = "done"
    /\ nreq.calls = 1
    /\ nreq.feed = List(<<>>)
    /\ nreq.result = <<>>

\* C20: headline retrieval.  A finished getHeadlineNewsForToday call has
\* made exactly one provider call if no news existed for its today and none
\* if news existed; it returns getHeadlineNews(today) as read after the
\* cycle, and the headlines the cycle marked are in its result.
C20_HeadlineRetrieval ==
    (nreq.pc = "done" /\ nreq.fn = "getHeadlineNewsForToday") =>
        /\ nreq.calls = IF nreq.hasNews THEN 0 ELSE 1
        /\ nreq.result =
              getHeadlineNews(newsdb, news_daily_cache, nreq.headlinesDate)
        /\ (nreq.passed # Null /\ ~nreq.markFailed) =>
              \A k \in 1..Len(nreq.passed.newsUuids) :
                 \E j \in 1..Len(nreq.result) :
                    nreq.result[j].uuid = nreq.passed.newsUuids[k]

\* the headline marks of a date
MarksOf(date) == {c \in news_daily_cache : c.date = date /\ c.is_headline}

\* the priority the mark of a date gives to a uuid
MarkPriority(date, uuid) ==
    (CHOOSE c \in MarksOf(date) : c.news_uuid = uuid).priority

\* the article row persisted under a uuid
RowOf(uuid) == CHOOSE n \in newsdb.news_articles : n.uuid = uuid

\* C21: getHeadlineNews(date), as getHeadlineNewsForToday returns it, holds
\* exactly the articles that have a headline mark of that date, each once,
\* by priority descending and, among equal priorities, by publish timestamp
\* descending.
C21_HeadlinesOfDate ==
    (nreq.pc = "done" /\ nreq.fn = "getHeadlineNewsForToday") =>
        LET R    == nreq.result
            date == nreq.headlinesDate
            Stamp(uuid) == RowOf(uuid).published_at.date * 2
                              + RowOf(uuid).published_at.time
        IN  /\ {R[k].uuid : k \in 1..Len(R)} = {c.news_uuid : c \in MarksOf(date)}
            /\ \A j, k \in 1..Len(R) : j # k => R[j].uuid # R[k].uuid
            /\ \A j, k \in 1..Len(R) :
                  j < k =>
                     \/ MarkPriority(date, R[j].uuid) > MarkPriority(date, R[k].uuid)
                     \/ /\ MarkPriority(date, R[j].uuid) = MarkPriority(date, R[k].uuid)
                        /\ Stamp(R[j].uuid) >= Stamp(R[k].uuid)

\* two headlines of one priority were returned, the later published first
C21_Witness ==
    /\ nreq.pc = "done"
    /\ nreq.fn = "getHeadlineNewsForToday"
    /\ Len(nreq.result) = 2
    /\ MarkPriority(nreq.headlinesDate, nreq.result[1].uuid)
          = MarkPriority(nreq.headlinesDate, nreq.result[2].uuid)
    /\ nreq.result[1].published_at = Iso(2, 1, 0)
    /\ nreq.result[2].published_at = Iso(2, 0, 0)

\* an optional list as a sequence: an absent list counts as an empty one
ListOf(x) == IF x = Undefined THEN <<>> ELSE x.list

\* the instant of a provider timestamp, in half days
Instant(iso) == iso.day * 2 + iso.tod - iso.off

SameCategories(read, a) ==
    /\ Len(ListOf(read.categories)) = Len(ListOf(a.categories))
    /\ Range(ListOf(read.categories)) = Range(ListOf(a.categories))

SameEntities(read, a) ==
    /\ Len(ListOf(read.entities)) = Len(ListOf(a.entities))
    /\ \A k \in 1..Len(ListOf(a.entities)) :
          LET r == read.entities.list[k]
              e == a.entities.list[k]
          IN  /\ [r EXCEPT !.highlights = Null] = [e EXCEPT !.highlights = Null]
              /\ Len(ListOf(r.highlights)) = Len(ListOf(e.highlights))
              /\ Range(ListOf(r.highlights)) = Range(ListOf(e.highlights))

SameSimilar(read, a) ==
    LET Ref(x, at) == [uuid |-> x.uuid, title |-> x.title, source |-> x.source,
                       at |-> at]
    IN  /\ Len(ListOf(read.similar)) = Len(ListOf(a.similar))
        /\ {Ref(x, x.published_at.date * 2 + x.published_at.time) :
                x \in Range(ListOf(read.similar))}
             = {Ref(x, Instant(x.published_at)) : x \in Range(ListOf(a.similar))}

\* C22: save/load round trip.  After a committed
\* saveNewsArticleWithRelations(a), getNewsByDate of the UTC date of
\* a.published_at holds exactly one article with a.uuid, with the categories,
\* the entities with their highlights and the similar references of a; the
\* list holds only articles published on that date, latest first.
C22_SaveLoadRoundTrip ==
    lastSave.outcome = "committed" =>
        LET a    == lastSave.article
            date == convertToMySQLDateTime(a.published_at).date
            L    == getNewsByDate(newsdb, date)
            hits == {k \in 1..Len(L) : L[k].uuid = a.uuid}
        IN  /\ Cardinality(hits) = 1
            /\ \A k \in hits : /\ SameCategories(L[k], a)
                                /\ SameEntities(L[k], a)
                                /\ SameSimilar(L[k], a)
            /\ \A k \in 1..Len(L) :
                  convertToMySQLDateTime(L[k].published_at).date = date
            /\ \A j, k \in 1..Len(L) :
                  j < k => Instant(L[j].published_at) >= Instant(L[k].published_at)

C24_OneDatePerInvocation ==
    [][ /\ \A r \in QReq :
              /\ (qreq[r].pc = "idle" /\ qreq'[r].pc # "idle") =>
                     qreq'[r].today = now
              /\ (qreq[r].pc # "idle" /\ qreq'[r].pc # "idle") =>
                     qreq'[r].today = qreq[r].today
        /\ \A row \in currency_rates' \ currency_rates :
              \E r \in QReq : /\ qreq[r].pc = "save" /\ qreq[r].kind = "currency"
                              /\ row.date = qreq[r].today
        /\ \A row \in commodity_prices' \ commodity_prices :
              \E r \in QReq : /\ qreq[r].pc = "save" /\ qreq[r].kind = "commodity"
                              /\ row.date = qreq[r].today
        /\ (nreq.pc = "idle" /\ nreq'.pc \notin {"idle", "check"}) =>
              nreq'.today = now
        /\ (nreq.pc \notin {"idle", "check"} /\ nreq'.pc # "idle") =>
              nreq'.today = nreq.today
        /\ \A row \in news_daily_cache' \ news_daily_cache :
              nreq.pc = "mark" /\ row.date = nreq.today
      ]_vars

\* a batch that started on day 1 wrote a row after midnight, dated day 1,
\* and a news invocation wrote its mark
C24_Witness ==
    /\ qreq["q1"].late
    /\ qreq["q1"].today < now
    /\ \E row \in currency_rates \cup commodity_prices : row.date = qreq["q1"].today
    /\ \A row \in currency_rates \cup commodity_prices : row.date < now
    /\ \E row \in news_daily_cache : row.date = nreq.today /\ nreq.pc = "done"

\* the next step of the quotes request in slot r can be taken
QuotesCanStep(r) ==
    /\ (FreeSlot(r) /\ domain # "commodity") => ENABLED checkAndGetCurrencyRates(r)
    /\ (FreeSlot(r) /\ domain # "currency") => ENABLED checkAndGetCommodityPrices(r)
    /\ qreq[r].pc = "call" =>
          ENABLED (fetchCurrencyRateFromAPI(r) \/ fetchStockQuoteFromAPI(r))
    /\ qreq[r].pc = "save" => ENABLED (SaveCurrencyStep(r) \/ SaveCommodityStep(r))
    /\ qreq[r].pc = "sleep" => ENABLED PacingDelay(r)
    /\ qreq[r].pc \in {"done", "failed"} => ENABLED RespondQuotes(r)

\* the next step of the news request can be taken
NewsCanStep ==
    /\ nreq.pc = "idle" => ENABLED checkAndGetNews(NoParams)
    /\ nreq.pc = "read" => ENABLED ReadCachedNews
    /\ nreq.pc = "fetch" => ENABLED fetchNewsFromAPI(ServiceFeeds)
    /\ nreq.pc = "save" => ENABLED SaveArticleStep(0)
    /\ nreq.pc = "mark" => ENABLED MarkHeadlines
    /\ nreq.pc \in {"done", "failed"} => ENABLED RespondNews

\* C25: the pacing delay blocks only its own request.  In every state where
\* a batch is inside its wait, a news request and a request in the other
\* quotes slot can be accepted, and whichever of them is in flight can take
\* its next step, up to its answer.
C25_PacingBlocksOnlyItsRequest ==
    \A r \in QReq :
       qreq[r].pc = "sleep" =>
          /\ NewsCanStep
          /\ \A other \in QReq \ {r} : QuotesCanStep(other)

\* the batch of q1 is in the wait after its first write; q2, which found
\* that row in the store and so started after the write, has its data, and
\* a news invocation has fetched, saved and marked and has its result
C25_Witness ==
    /\ qreq["q1"].pc = "sleep" /\ qreq["q1"].writes = 1
    /\ qreq["q2"].pc = "done" /\ Len(qreq["q2"].seen) = 1
    /\ nreq.pc = "done" /\ nreq.passed # Null

\* the answer a route sends is one of the two envelopes
WellFormed(response) ==
    \/ /\ response.status = 200
       /\ response.body.success = TRUE
       /\ "data" \in DOMAIN response.body
    \/ /\ response.status = 500
       /\ response.body.success = FALSE
       /\ DOMAIN response.body = {"success", "error"}

\* the orchestrator of a request has returned or thrown
Ended(q) == q.pc \in {"done", "failed"}

\* C26: well-formed envelope.  A request leaves its route only after its
\* orchestrator has returned or thrown, with {success: true, data} or with
\* status 500 and {success: false, error}; once the orchestrator has ended
\* nothing but that one answer happens to the request; and, with requests
\* arriving one after the other, the request in flight is answered and its
\* route is free again, whatever provider call, store read, store write or
\* headline marking failed.
C26_WellFormedEnvelope ==
    /\ [][ /\ \A r \in QReq :
                 /\ (qreq[r].pc # "idle" /\ qreq'[r].pc = "idle") =>
                        Ended(qreq[r]) /\ WellFormed(QuotesResponse(qreq[r]))
                 /\ Ended(qreq[r]) => qreq'[r] \in {qreq[r], IdleQ}
           /\ (nreq.pc # "idle" /\ nreq'.pc = "idle") =>
                  /\ Ended(nreq)
                  /\ (nreq.pc = "failed" => nreq.error # Null)
                  /\ WellFormed(NewsResponse(nreq))
           /\ Ended(nreq) => nreq' \in {nreq, IdleN} ]_vars
    /\ ~(NoQuotesRequest /\ NoNewsRequest) ~> (NoQuotesRequest /\ NoNewsRequest)

\* after two failures (a rejected store read among them) the news route is
\* about to answer 500, and the quotes route has answered before
C26_Witness ==
    /\ faults = MaxFaults
    /\ nreq.pc = "failed"
    /\ NewsResponse(nreq) = Reply500("connect ECONNREFUSED")
    /\ currency_rates # {}

\* a response of the quotes provider that carries a Note or an Error Message
QuotesSentinel(response) ==
    /\ response # Null
    /\ response.ok
    /\ response.body.Note # Undefined \/ response.body.ErrorMessage # Undefined

\* a response of the news provider that carries an error object
NewsSentinel(response) ==
    /\ response # Null
    /\ response.ok
    /\ response.body.error # Undefined

\* C27: sentinel errors are never ignored.  A provider call whose response
\* carries a Note or an Error Message (quotes) or an error object (news)
\* fails: the client returns no record, the iteration pushes no result and
\* writes no row, the news cycle throws and saves nothing; a record is saved
\* only after a response without sentinel, also when the response with the
\* sentinel carries a well-formed section or data.
C27_SentinelsNeverIgnored ==
    /\ [][ /\ \A r \in QReq :
                 (/\ qreq[r].pc = "call" /\ qreq'[r] # qreq[r]
                  /\ QuotesSentinel(qreq'[r].response)) =>
                    /\ qreq'[r].rate = Null /\ qreq'[r].pc # "save"
                    /\ qreq'[r].okIdx = qreq[r].okIdx
                    /\ qreq'[r].results = qreq[r].results
                    /\ currency_rates' = currency_rates
                    /\ commodity_prices' = commodity_prices
           /\ (/\ nreq.pc = "fetch" /\ nreq' # nreq
               /\ NewsSentinel(nreq'.response)) =>
                 /\ nreq'.pc = "failed" /\ nreq'.error # Null
                 /\ nreq'.data = <<>>
                 /\ newsdb' = newsdb /\ news_daily_cache' = news_daily_cache
         ]_vars
    /\ [](\A r \in QReq : qreq[r].pc = "save" => ~QuotesSentinel(qreq[r].response))
    /\ [](nreq.pc \in {"save", "mark"} => ~NewsSentinel(nreq.response))

\* the last call of a batch got a Note next to a well-formed section and
\* its position was not saved
C27_Witness ==
    /\ qreq["q1"].pc \in {"call", "done"}
    /\ QuotesSentinel(qreq["q1"].response)
    /\ qreq["q1"].response.body.Note # Undefined
    /\ qreq["q1"].response.body.section
    /\ qreq["q1"].calls # <<>>
    /\ qreq["q1"].calls[Len(qreq["q1"].calls)] \notin qreq["q1"].okIdx

\* C28: a missing credential fails fast.  A provider client that finds no
\* API key throws before it issues a network request, so an invocation
\* that runs without a key issues none: a cache-miss batch attempts every
\* instrument, fetches nothing and saves nothing, and a news cycle throws
\* the configuration error.
C28_MissingKeyFailsFast ==
    /\ [][ /\ \A r \in QReq :
                 (/\ qreq[r].pc = "call" /\ qreq'[r] # qreq[r]
                  /\ ~Truthy(qreq'[r].env)) =>
                    /\ qreq'[r].fetches = qreq[r].fetches
                    /\ qreq'[r].response = Null
                    /\ qreq'[r].rate = Null /\ qreq'[r].pc # "save"
           /\ (/\ nreq.pc = "fetch" /\ nreq' # nreq
               /\ ~Truthy(nreq'.env)) =>
                 /\ nreq'.fetches = nreq.fetches
                 /\ nreq'.pc = "failed"
                 /\ nreq'.error = Str("Marketaux API key is not configured")
         ]_vars
    /\ [](\A r \in QReq :
            (qreq[r].calls # <<>> /\ ~Truthy(qreq[r].env)) =>
               /\ qreq[r].fetches = 0
               /\ qreq[r].okIdx = {} /\ qreq[r].results = <<>>)
    /\ [](\A r \in QReq :
            (qreq[r].calls # <<>> /\ Truthy(qreq[r].env)) =>
               qreq[r].fetches = Len(qreq[r].calls))

\* a commodity batch without a key has called the client for each of its
\* instruments and ends with no network request issued and no row written
C28_Witness ==
    /\ qreq["q1"].pc = "done" /\ qreq["q1"].kind = "commodity"
    /\ qreq["q1"].env = Undefined
    /\ Len(qreq["q1"].calls) = Len(POPULAR_COMMODITIES)
    /\ qreq["q1"].fetches = 0
    /\ commodity_prices = {}

\* the keys of the rows of the quotes tables and the uuids of the articles
CurrencyKeys(table) == {CurrencyRateKey(row) : row \in table}

CommodityKeys(table) == {CommodityPriceKey(row) : row \in table}

ArticleUuids(db) == {row.uuid : row \in db.news_articles}

\* the article whose relation rows a step removed, for every row removed
RemovedRelationsOf(db, after) ==
    {row.news_uuid : row \in (db.news_categories \ after.news_categories)
                             \cup (db.news_entities \ after.news_entities)
                             \cup (db.news_similar \ after.news_similar)}
    \cup {e.news_uuid : e \in {x \in db.news_entities :
              \E h \in db.news_entity_highlights \ after.news_entity_highlights :
                 h.entity_id = x.id}}

\* C29: no deletion path.  No step removes a currency key, a commodity key,
\* an article uuid or a headline mark; the only rows a step removes are
\* category, entity, highlight and similar rows of the article that the
\* step saves, in a call that commits, and every highlight removed belonged
\* to an entity of that article.
C29_NoDeletionPath ==
    [][ /\ CurrencyKeys(currency_rates) \subseteq CurrencyKeys(currency_rates')
        /\ CommodityKeys(commodity_prices) \subseteq CommodityKeys(commodity_prices')
        /\ ArticleUuids(newsdb) \subseteq ArticleUuids(newsdb')
        /\ {DailyCacheKey(row) : row \in news_daily_cache}
              \subseteq {DailyCacheKey(row) : row \in news_daily_cache'}
        /\ \A h \in newsdb.news_entity_highlights \ newsdb'.news_entity_highlights :
              \E e \in newsdb.news_entities : e.id = h.entity_id
        /\ RemovedRelationsOf(newsdb, newsdb') # {} =>
              /\ nreq.pc = "save"
              /\ RemovedRelationsOf(newsdb, newsdb') = {nreq.data[nreq.i].uuid}
              /\ lastSave'.outcome = "committed"
              /\ lastSave'.uuid = nreq.data[nreq.i].uuid
      ]_vars

\* on the second day the article was saved again and its entity row was
\* replaced; the marks and the quotes of both days are in the store
C29_Witness ==
    /\ lastSave.outcome = "committed"
    /\ newsdb.news_entities # {}
    /\ \A e \in newsdb.news_entities : e.id > 1
    /\ Cardinality({m.date : m \in news_daily_cache}) = 2
    /\ Cardinality({row.date : row \in currency_rates}) = 2

\* C30: getHeadlineNews builds full article objects.  Every article that
\* getHeadlineNewsForToday returns carries the categories, the entities with
\* their highlights and the similar references that getNewsByDate builds for
\* the same article row (an absent list counts as an empty one).
C30_HeadlineArticlesFull ==
    (nreq.pc = "done" /\ nreq.fn = "getHeadlineNewsForToday") =>
        \A k \in 1..Len(nreq.result) :
           LET h == nreq.result[k]
               g == ArticleWithRelations(newsdb, RowOf(h.uuid))
           IN  /\ ListOf(h.categories) = ListOf(g.categories)
               /\ ListOf(h.entities) = ListOf(g.entities)
               /\ ListOf(h.similar) = ListOf(g.similar)

(***************************************************************************)
(* Properties of requests that overlap in time.                            *)
(***************************************************************************)
\* the tracked instruments a returned list holds
InstrumentsIn(q) == {InstrumentOf(q.kind, q.data[k]) : k \in 1..Len(q.data)}

AllTracked(kind) == {TrackedKey(kind, k) : k \in 1..Len(Tracked(kind))}

\* C31: complete responses under concurrency.  When every provider call and
\* every save succeeds, every list that checkAndGetCurrencyRates (resp.
\* checkAndGetCommodityPrices) returns holds all 4 tracked pairs (resp. all 8
\* symbols), also for a request that arrives while the paced cache-miss
\* batch of another request for the same day is in flight.
C31_CompleteUnderConcurrency ==
    \A r \in QReq :
        qreq[r].pc = "done" => InstrumentsIn(qreq[r]) = AllTracked(qreq[r].kind)

\* the instruments stored for a date in the table of a domain
StoredInstruments(rates, prices, kind, date) ==
    LET rows == IF kind = "currency" THEN getCurrencyRatesByDate(rates, date)
                ELSE getCommodityPricesByDate(prices, date)
    IN  {InstrumentOf(kind, rows[k]) : k \in 1..Len(rows)}

\* the attempt of batch q at list position k is over and left no row
FailedIn(q, k) ==
    /\ OnMissPath(q)
    /\ k \in 1..Len(Tracked(q.kind))
    /\ k \notin q.okIdx
    /\ k < q.i \/ q.pc = "done"

\* in this step the invocation of slot r starts
Starts(r) == qreq[r].pc = "idle" /\ qreq'[r].pc # "idle"

\* in this step the invocation of slot r calls the provider for position k
IssuesCall(r, k) ==
    /\ Len(qreq'[r].calls) = Len(qreq[r].calls) + 1
    /\ qreq'[r].calls[Len(qreq'[r].calls)] = k

\* an invocation that starts on a date with at least one persisted row ends
\* at once with the rows it read, and only invocations that read no row
\* call the provider
NoCallOncePopulated ==
    /\ [][\A r \in QReq :
            (/\ Starts(r)
             /\ StoredInstruments(currency_rates, commodity_prices,
                                  qreq'[r].kind, qreq'[r].today) # {})
            => (qreq'[r].pc = "done" /\ qreq'[r].calls = <<>>)]_vars
    /\ [](\A r \in QReq : qreq[r].calls # <<>> => qreq[r].seen = <<>>)

CycleSavedToday(q) ==
    /\ q.pc = "done" /\ q.calls = 1 /\ q.okIdx # {}
    /\ q.today = getTodayDate

\* C33: after a news fetch-and-save cycle for today that saved at least one
\* article, checkNewsExistsForDate(today) is true, so that the next
\* checkAndGetNews call without filters on the same day takes the cached
\* branch, whatever publish timestamps the saved articles carry.
C33_CycleMakesDayCached ==
    CycleSavedToday(nreq) =>
        /\ checkNewsExistsForDate(newsdb, getTodayDate)
        /\ ~BypassCache(NoParams)

(***************************************************************************)
(* Properties of the lists the quotes orchestrators return.                *)
(***************************************************************************)
\* a cache-miss batch of the current day has returned every tracked
\* instrument
FullMissToday(q) ==
    /\ q.pc = "done" /\ Len(q.seen) = 0
    /\ Len(q.data) = Len(Tracked(q.kind))
    /\ q.today = getTodayDate

\* C34: response equivalence.  For the same day and the same provider data,
\* the list the cache-miss call of checkAndGetCommodityPrices (resp.
\* checkAndGetCurrencyRates) returns and the list the following cache-hit
\* call returns hold the same records, with the same field names and values.
C34_MissAndHitAgree ==
    \A r \in QReq :
        FullMissToday(qreq[r]) => Range(qreq[r].data) = Range(RowsForToday(qreq[r]))

(***************************************************************************)
(* Properties of saves and reads of the news store that overlap.           *)
(***************************************************************************)
\* the relation rows persisted for the uuid of a version are exactly those
\* the version carries, one entity row per entity
HoldsVersion(db, version) ==
    /\ PersistedCategories(db, version.uuid) = CarriedCategories(version)
    /\ PersistedEntities(db, version.uuid) = CarriedEntities(version)
    /\ Cardinality({e \in db.news_entities : e.news_uuid = version.uuid})
          = (IF version.entities = Undefined THEN 0 ELSE Len(version.entities.list))
    /\ PersistedSimilar(db, version.uuid) = CarriedSimilar(version)

\* C35: when two requests save the same article uuid at the same time, the
\* store orders the two transactions on the article row that both upsert
\* first; after both have ended the persisted categories, entities,
\* highlights and similar rows of the uuid are those of exactly one of the
\* two versions: no duplicated entity rows, no mixture of the two.
C35_OneOfTwoVersions ==
    [][(/\ lastSave.outcome = "committed"
        /\ lastSave'.outcome = "committed"
        /\ lastSave'.uuid = lastSave.uuid
        /\ newsdb' # newsdb)
       => \/ HoldsVersion(newsdb', lastSave.article)
          \/ HoldsVersion(newsdb', lastSave'.article)]_vars

\* the article getNewsByDate builds from a store that holds one version
AsRead(version) ==
    getNewsByDate(SaveResult(EmptyNewsDb, 1, version, 0).db,
                  convertToMySQLDateTime(version.published_at).date)[1]

MarksAgain(uuid, date) ==
    /\ nreq.pc = "mark" /\ nreq'.passed # Null /\ ~nreq'.markFailed
    /\ nreq.today = date
    /\ uuid \in Range(nreq.headlineUuids)

\* an entity row persisted for the uuid meets the headline rule
StillQualifies(uuid) ==
    \E e \in newsdb.news_entities :
        /\ e.news_uuid = uuid
        /\ \/ e.sentiment_score # Null /\ Abs(e.sentiment_score.num) > 300
           \/ e.match_score # Null /\ e.match_score.num > 20000

\* C37: headline marks are only ever added or re-prioritised, never
\* cleared.  Once (uuid, date) is marked is_headline it stays marked in
\* every later state, also after the article is saved again with entities
\* that no longer meet the sentiment or match-score threshold; only its
\* priority can change, and only through a later cycle that selects the
\* article again.
C37_MarksNeverCleared ==
    /\ [](\A m \in news_daily_cache : m.is_headline)
    /\ [][\A m \in news_daily_cache :
            \E n \in news_daily_cache' :
               /\ DailyCacheKey(n) = DailyCacheKey(m)
               /\ n.is_headline
               /\ n.priority # m.priority => MarksAgain(m.news_uuid, m.date)]_vars

\* article a is marked with the priority of its strong entity, and was
\* then saved again with an entity that sits on the thresholds: no entity
\* row of a meets the rule any more, and the mark is there
C37_Witness ==
    /\ \E m \in news_daily_cache :
          m.news_uuid = "a" /\ m.is_headline /\ m.priority = 50
    /\ lastSave.outcome = "committed" /\ lastSave.article = N11
    /\ ~StillQualifies("a")
    /\ nreq.pc = "done"

(***************************************************************************)
(* Termination and the work of one invocation.                             *)
(***************************************************************************)
\* no position occurs twice in a list of positions
NoRepeat(positions) ==
    \A j \in 1..Len(positions) : \A k \in 1..Len(positions) :
        positions[j] = positions[k] => j = k

\* an orchestrator invocation is running
Running == \/ \E r \in QReq : qreq[r].pc # "idle" /\ ~Ended(qreq[r])
           \/ nreq.pc # "idle" /\ ~Ended(nreq)

\* C38: termination and resources.  Provided every provider call and every
\* store operation returns or fails, every orchestrator invocation ends,
\* having issued at most 4 provider calls and 3 delays (currency), 8
\* provider calls and 7 delays (commodity), or 1 provider call and one save
\* attempt per returned article (news); no provider call and no save is
\* tried a second time within an invocation.
C38_TerminatesWithinBounds ==
    /\ [](\A r \in QReq :
            LET q == qreq[r] IN
            /\ q.kind = "currency" => Len(q.calls) <= 4 /\ q.delays <= 3
            /\ q.kind = "commodity" => Len(q.calls) <= 8 /\ q.delays <= 7
            /\ NoRepeat(q.calls)
            /\ q.writes <= Len(q.calls))
    /\ [](/\ nreq.calls <= 1
          /\ Len(nreq.attempts) <= Len(nreq.data)
          /\ NoRepeat(nreq.attempts))
    /\ Running ~> ~Running

\* a commodity batch has ended after 8 provider calls, two of which threw,
\* and 5 delays
C38_Witness ==
    /\ qreq["q1"].kind = "commodity" /\ qreq["q1"].pc = "done"
    /\ Len(qreq["q1"].calls) = 8 /\ qreq["q1"].delays = 5
    /\ Len(qreq["q1"].data) = 6
    /\ faults = MaxFaults

====
